---------------------------- MODULE Spec2Model ----------------------------
(***************************************************************************)
(* Model of the raksa-ai intake kiosk: the gated intake form state machine *)
(* of src/App.tsx (updateField, confirmField, moveToStep and the UI        *)
(* handlers), the form helpers of src/lib/form.ts, and the tool-call       *)
(* dispatch of GeminiLiveModel.handleMessage in src/types.ts.              *)
(*                                                                         *)
(* The model keeps the first field of the personal group and the first    *)
(* NumIncidentFields fields of the incident group; the labels, the photo   *)
(* and the language of the form are left out.  Field values are the empty  *)
(* string of a new field and one text that the remote model or the user    *)
(* supplies.                                                               *)
(*                                                                         *)
(* React state: `form` is the value of the useState hook after every       *)
(* queued updater has been applied in order (updaters are pure functions   *)
(* of the previous state, so the order of application is the order of the  *)
(* setForm calls).  `renderPending` says that the RaksaApp fibre has an    *)
(* update that is not rendered yet: React runs an updater inside the       *)
(* setForm call only when the fibre has no pending update, otherwise the   *)
(* updater runs at the next render.  That decides what a variable          *)
(* assigned inside an updater holds when setForm returns.                  *)
(***************************************************************************)
EXTENDS Integers, Sequences, FiniteSets, TLC

VARIABLES
    form,            \* useState<IntakeFormState> of RaksaApp
    renderPending,   \* RaksaApp has state updates that are not rendered yet
    blocked,         \* what the latest moveToStep call returned
    emptyGroupDone,  \* what groupFullyConfirmed answers for an id that is no group
    connectionState, \* useState<ConnectionState> of RaksaApp
    sessionStarted,  \* useState sessionStarted of RaksaApp
    callsSeen,       \* function calls of the message in hand dispatched so far
    microtasks,      \* pending sessionPromise.then callbacks, in order
    toolResponses,   \* tool responses sent by the step just taken
    isConnected,     \* GeminiLiveModel.isConnected
    session,         \* GeminiLiveModel.session: 0 for null, else the connect() call
    sendQueue,       \* pending this.session.then callbacks of sendText / sendImage
    transportSends,  \* client content sent into the transport by the step just taken
    mediaStream,     \* GeminiLiveModel.mediaStream: 0 for null, else the connect() call
    inputContext,    \* GeminiLiveModel.inputContext, likewise
    sourceNode,      \* GeminiLiveModel.source, likewise
    processor,       \* GeminiLiveModel.processor, likewise
    outputContext,   \* GeminiLiveModel.outputContext, likewise
    nextStartTime,   \* GeminiLiveModel.nextStartTime
    scheduledSources, \* GeminiLiveModel.scheduledSources: start and duration of each
    currentTime,     \* outputContext.currentTime
    attempts,        \* connect() calls made so far
    pc,              \* where each connect() call is
    sock,            \* the socket of each live.connect()
    connectInFlightRef, \* connectInFlightRef.current of RaksaApp
    onaudioprocess,  \* the session that processor.onaudioprocess sends to, 0 if unset
    liveTracks,      \* connect() calls whose microphone tracks are not stopped
    awaitingSession, \* sessions that a disconnect() is awaiting: session = null follows
    thrown,          \* an exception has escaped connect() or disconnect()
    mounted,         \* RaksaApp is mounted: the cleanup of its effect has not run
    lastCall,        \* the last of connect() and disconnect() called on the engine
    messages,        \* useState<Message[]> of RaksaApp: the turns of the transcript
    lastFinal,       \* the latest onTranscript call carried isFinal
    nodes,           \* the AudioBufferSourceNode behind each of scheduledSources
    stopped,         \* nodes that were stopped and whose ended event is to come
    created,         \* createBufferSource() calls made so far
    captured,        \* onaudioprocess events delivered so far, each with one frame
    sentFrames,      \* the frames handed to a transport so far, in order
    storage,         \* localStorage: the item under STORAGE_KEY, or none
    hasResumable,    \* useState hasResumable of RaksaApp
    grok             \* the GrokLiveModel object and its socket

sendVars == <<sendQueue, transportSends>>

audioVars == <<mediaStream, inputContext, sourceNode, processor, outputContext,
               nextStartTime, scheduledSources, currentTime, liveTracks,
               onaudioprocess>>

attemptVars == <<attempts, pc, sock, connectInFlightRef, awaitingSession, thrown>>

callVars == <<mounted, lastCall>>

transcriptVars == <<messages, lastFinal>>

nodeVars == <<nodes, stopped, created>>

\* the browser around the program, as far as single claims need it
frameVars == <<captured, sentFrames>>

storageVars == <<storage, hasResumable>>

deviceVars == <<nodeVars, frameVars, storageVars>>

\* the state that only the detailed model of the engines uses
detailVars == <<audioVars, attemptVars, callVars, transcriptVars, deviceVars, grok>>

vars == <<form, renderPending, blocked, emptyGroupDone,
          connectionState, sessionStarted,
          callsSeen, microtasks, toolResponses,
          isConnected, session, sendVars, detailVars>>

NULL == "null"

----------------------------------------------------------------------------
(* Bounds of the model *)

\* fields kept of the incident group (the program has 7)
NumIncidentFields == 2
\* function calls carried by one server message
MaxCallsPerMsg == 2
\* connect() calls made on one engine object
MaxAttempts == 2

----------------------------------------------------------------------------
(* Types of src/types.ts *)

DISCONNECTED == "disconnected"
CONNECTING   == "connecting"
CONNECTED    == "connected"
ERROR        == "error"

FieldStatus == {"unanswered", "inferred_from_speech", "inferred_from_image", "confirmed"}

IntakeStep == {"photo", "personal", "incident", "receipt"}

\* what the remote model can pass as args.step: a string
StepArgs == IntakeStep \cup {"summary"}

\* the field values that update_field and the edit box supply
Values == {"a"}

\* what generateReceiptCode can return: RTP-<time>-<random>
ReceiptCodes == {"RTP-1", "RTP-2"}

PersonalFieldIds ==
    <<"full_name", "date_of_birth", "age", "gender", "nationality", "phone", "address">>

IncidentFieldIds ==
    <<"incident_type", "incident_description", "incident_date", "incident_location",
      "incident_victims", "incident_suspects", "incident_evidence">>

NewField(id) == [id |-> id, value |-> "", status |-> "unanswered"]

NewFields(ids, n) == [i \in 1..n |-> NewField(ids[i])]

createDefaultForm ==
    [ step          |-> "photo",
      activeFieldId |-> NULL,
      groups        |-> << [id |-> "personal",
                            fields |-> NewFields(PersonalFieldIds, 1)],
                           [id |-> "incident",
                            fields |-> NewFields(IncidentFieldIds, NumIncidentFields)] >>,
      receiptCode   |-> NULL ]

\* localStorage.getItem returns null when the key holds no item
NoItem == [isNull |-> TRUE, raw |-> <<>>]

\* JSON.stringify and JSON.parse of a form: its strings, nulls and arrays
\* are written out and read back as they are
JSONstringify(f) == <<"json", f>>

JSONparse(raw) == raw[2]

\* saveFormToStorage: the item that setItem leaves under the key
saveFormToStorage(f) == [isNull |-> FALSE, raw |-> JSONstringify(f)]

\* the null that loadFormFromStorage returns
NoSavedForm == [isNull |-> TRUE, form |-> <<>>]

\* loadFormFromStorage: the saved form, null if there is no item
loadFormFromStorage(item) ==
    IF item.isNull THEN NoSavedForm
    ELSE [isNull |-> FALSE, form |-> JSONparse(item.raw)]

\* hasSavedInProgressForm: a form is saved and it has no receipt code
hasSavedInProgressForm(item) ==
    LET saved == loadFormFromStorage(item)
    IN  IF saved.isNull THEN FALSE ELSE saved.form.receiptCode = NULL

FieldIds == {PersonalFieldIds[1]}
              \cup {IncidentFieldIds[i] : i \in 1..NumIncidentFields}

\* what the remote model can pass as args.field_id: a string
FieldArgs == FieldIds \cup {"no_such_field"}

GroupIds == {"personal", "incident"}

----------------------------------------------------------------------------
(* Helpers of src/lib/form.ts *)

\* indexes of the elements of sequence s that satisfy Test
FirstIndex(s, Test(_)) ==
    IF \E i \in 1..Len(s) : Test(s[i])
    THEN CHOOSE i \in 1..Len(s) : Test(s[i]) /\ \A j \in 1..(i - 1) : ~Test(s[j])
    ELSE 0

NotConfirmed(f) == f.status # "confirmed"

HasUnconfirmed(g) == \E i \in 1..Len(g.fields) : NotConfirmed(g.fields[i])

\* Array.prototype.find over the groups by id; 0 stands for undefined
GroupIndex(f, groupId) == FirstIndex(f.groups, LAMBDA g : g.id = groupId)

\* the null that findNextField returns when every field is confirmed
NoField == [groupId |-> NULL, fieldId |-> NULL]

findNextField(f) ==
    LET gi == FirstIndex(f.groups, HasUnconfirmed)
    IN  IF gi = 0 THEN NoField
        ELSE LET g == f.groups[gi]
             IN  [groupId |-> g.id,
                  fieldId |-> g.fields[FirstIndex(g.fields, NotConfirmed)].id]

allFieldsConfirmed(f) ==
    \A gi \in 1..Len(f.groups) : ~HasUnconfirmed(f.groups[gi])

groupFullyConfirmed(f, groupId) ==
    LET gi == GroupIndex(f, groupId)
    IN  IF gi = 0 THEN emptyGroupDone ELSE ~HasUnconfirmed(f.groups[gi])

unconfirmedFieldsInGroup(f, groupId) ==
    LET gi == GroupIndex(f, groupId)
    IN  IF gi = 0 THEN <<>>
        ELSE LET missing == SelectSeq(f.groups[gi].fields, NotConfirmed)
             IN  [i \in 1..Len(missing) |-> missing[i].id]

----------------------------------------------------------------------------
(* Form updaters of src/App.tsx: each is the function handed to setForm *)

\* a value of type string[] | null
NullList == [isNull |-> TRUE, names |-> <<>>]

List(names) == [isNull |-> FALSE, names |-> names]

MapFields(f, Change(_)) ==
    [gi \in 1..Len(f.groups) |->
        [f.groups[gi] EXCEPT !.fields =
            [i \in 1..Len(f.groups[gi].fields) |-> Change(f.groups[gi].fields[i])]]]

\* updateField that overwrites the value of a confirmed field silently
updateFieldKeepsConfirmed(prev, fieldId, value, source) ==
    LET status == IF source = "speech" THEN "inferred_from_speech"
                                       ELSE "inferred_from_image"
        Change(fld) == IF fld.id = fieldId
                       THEN [fld EXCEPT !.value = value,
                                        !.status = IF fld.status = "confirmed"
                                                   THEN "confirmed" ELSE status]
                       ELSE fld
    IN  [prev EXCEPT !.groups = MapFields(prev, Change)]

\* an updateField that also makes the field it writes the active one
updateFieldMovesActive(prev, fieldId, value, source) ==
    LET status == IF source = "speech" THEN "inferred_from_speech"
                                       ELSE "inferred_from_image"
        Change(fld) == IF fld.id = fieldId
                       THEN [fld EXCEPT !.value = value, !.status = status]
                       ELSE fld
    IN  [prev EXCEPT !.groups = MapFields(prev, Change), !.activeFieldId = fieldId]

\* updateField that takes what the image shows as confirmed
updateFieldTrustsImage(prev, fieldId, value, source) ==
    LET status == IF source = "speech" THEN "inferred_from_speech"
                                       ELSE "confirmed"
        Change(fld) == IF fld.id = fieldId
                       THEN [fld EXCEPT !.value = value, !.status = status]
                       ELSE fld
    IN  [prev EXCEPT !.groups = MapFields(prev, Change)]

updateField(prev, fieldId, value, source) ==
    LET status == IF source = "speech" THEN "inferred_from_speech"
                                       ELSE "inferred_from_image"
        Change(fld) == IF fld.id = fieldId
                       THEN [fld EXCEPT !.value = value, !.status = status]
                       ELSE fld
    IN  [prev EXCEPT !.groups = MapFields(prev, Change)]

\* a confirmField that takes the next field from the form before the call
confirmFieldNextOfPrev(prev, fieldId) ==
    LET Change(fld) == IF fld.id = fieldId THEN [fld EXCEPT !.status = "confirmed"]
                                           ELSE fld
        updatedForm == [prev EXCEPT !.groups = MapFields(prev, Change)]
        next        == findNextField(prev)
        nextStep    == IF /\ next # NoField
                          /\ next.groupId # prev.step
                          /\ groupFullyConfirmed(updatedForm, prev.step)
                       THEN next.groupId
                       ELSE prev.step
    IN  [updatedForm EXCEPT
            !.step = nextStep,
            !.activeFieldId = IF next # NoField THEN next.fieldId ELSE prev.activeFieldId]

\* confirmField that follows the next field into its group without asking
\* whether the current group is complete
confirmFieldFollowsNext(prev, fieldId) ==
    LET Change(fld) == IF fld.id = fieldId THEN [fld EXCEPT !.status = "confirmed"]
                                           ELSE fld
        updatedForm == [prev EXCEPT !.groups = MapFields(prev, Change)]
        next        == findNextField(updatedForm)
        nextStep    == IF next # NoField /\ next.groupId # prev.step
                       THEN next.groupId
                       ELSE prev.step
    IN  [updatedForm EXCEPT
            !.step = nextStep,
            !.activeFieldId = IF next # NoField THEN next.fieldId ELSE prev.activeFieldId]

confirmField(prev, fieldId) ==
    LET Change(fld) == IF fld.id = fieldId THEN [fld EXCEPT !.status = "confirmed"]
                                           ELSE fld
        updatedForm == [prev EXCEPT !.groups = MapFields(prev, Change)]
        next        == findNextField(updatedForm)
        nextStep    == IF /\ next # NoField
                          /\ next.groupId # prev.step
                          /\ groupFullyConfirmed(updatedForm, prev.step)
                       THEN next.groupId
                       ELSE prev.step
    IN  [updatedForm EXCEPT
            !.step = nextStep,
            !.activeFieldId = IF next # NoField THEN next.fieldId ELSE prev.activeFieldId]

\* moveToStep that issues the receipt once the current group lets it leave,
\* without asking whether every group is complete
moveToStepUnguardedReceipt(prev, step, code) ==
    LET currentGroupId == prev.step
    IN  IF /\ currentGroupId # step
           /\ currentGroupId # "photo"
           /\ currentGroupId # "receipt"
           /\ ~groupFullyConfirmed(prev, currentGroupId)
        THEN LET gi == GroupIndex(prev, currentGroupId)
                 fi == IF gi = 0 THEN 0
                       ELSE FirstIndex(prev.groups[gi].fields, NotConfirmed)
             IN  [ form    |-> [prev EXCEPT !.activeFieldId =
                                    IF fi # 0 THEN prev.groups[gi].fields[fi].id
                                              ELSE prev.activeFieldId],
                   blocked |-> List(unconfirmedFieldsInGroup(prev, currentGroupId)) ]
        ELSE IF step = "receipt"
        THEN [ form    |-> [prev EXCEPT !.step = "receipt",
                                        !.activeFieldId = NULL,
                                        !.receiptCode = code],
               blocked |-> NullList ]
        ELSE LET gi == GroupIndex(prev, step)
             IN  [ form    |-> [prev EXCEPT
                                    !.step = step,
                                    !.activeFieldId =
                                        IF gi # 0 /\ Len(prev.groups[gi].fields) > 0
                                        THEN prev.groups[gi].fields[1].id
                                        ELSE NULL],
                   blocked |-> NullList ]

\* moveToStep that changes the step of an accepted transition and leaves
\* the active field where it was
moveToStepKeepsActiveField(prev, step, code) ==
    LET currentGroupId == prev.step
    IN  IF /\ currentGroupId # step
           /\ currentGroupId # "photo"
           /\ currentGroupId # "receipt"
           /\ ~groupFullyConfirmed(prev, currentGroupId)
        THEN moveToStepUnguardedReceipt(prev, step, code)
        ELSE IF step = "receipt" /\ ~allFieldsConfirmed(prev)
        THEN LET nextField == findNextField(prev)
                 mi        == FirstIndex(prev.groups, HasUnconfirmed)
             IN  [ form    |-> [prev EXCEPT
                                   !.step = prev.groups[mi].id,
                                   !.activeFieldId =
                                       IF nextField # NoField THEN nextField.fieldId
                                                           ELSE prev.activeFieldId],
                   blocked |-> List(unconfirmedFieldsInGroup(prev, prev.groups[mi].id)) ]
        ELSE [ form    |-> [prev EXCEPT !.step = step,
                                        !.receiptCode = IF step = "receipt" THEN code ELSE @],
               blocked |-> NullList ]

\* the updater of moveToStep and the value it leaves in `blocked`;
\* code is what generateReceiptCode returns when it is called
moveToStep(prev, step, code) ==
    LET currentGroupId == prev.step
    IN  IF /\ currentGroupId # step
           /\ currentGroupId # "photo"
           /\ currentGroupId # "receipt"
           /\ ~groupFullyConfirmed(prev, currentGroupId)
        THEN LET gi == GroupIndex(prev, currentGroupId)
                 fi == IF gi = 0 THEN 0
                       ELSE FirstIndex(prev.groups[gi].fields, NotConfirmed)
             IN  [ form    |-> [prev EXCEPT !.activeFieldId =
                                    IF fi # 0 THEN prev.groups[gi].fields[fi].id
                                              ELSE prev.activeFieldId],
                   blocked |-> List(unconfirmedFieldsInGroup(prev, currentGroupId)) ]
        ELSE IF step = "receipt"
        THEN IF ~allFieldsConfirmed(prev)
             THEN LET nextField == findNextField(prev)
                      mi        == FirstIndex(prev.groups, HasUnconfirmed)
                  IN  [ form    |-> [prev EXCEPT
                                        !.step = IF mi # 0 THEN prev.groups[mi].id
                                                           ELSE prev.step,
                                        !.activeFieldId =
                                            IF nextField # NoField THEN nextField.fieldId
                                                                ELSE prev.activeFieldId],
                        blocked |-> IF mi # 0
                                    THEN List(unconfirmedFieldsInGroup(prev, prev.groups[mi].id))
                                    ELSE List(<<>>) ]
             ELSE [ form    |-> [prev EXCEPT !.step = "receipt",
                                             !.activeFieldId = NULL,
                                             !.receiptCode = code],
                    blocked |-> NullList ]
        ELSE LET gi == GroupIndex(prev, step)
             IN  [ form    |-> [prev EXCEPT
                                    !.step = step,
                                    !.activeFieldId =
                                        IF gi # 0 /\ Len(prev.groups[gi].fields) > 0
                                        THEN prev.groups[gi].fields[1].id
                                        ELSE NULL],
                   blocked |-> NullList ]

handlePhotoCaptureUpdater(prev) ==
    [prev EXCEPT !.step = "personal",
                 !.activeFieldId = IF Len(prev.groups) > 0 /\ Len(prev.groups[1].fields) > 0
                                   THEN prev.groups[1].fields[1].id ELSE NULL]

handlePhotoSkipUpdater(prev) ==
    [prev EXCEPT !.step = "personal",
                 !.activeFieldId = IF Len(prev.groups) > 0 /\ Len(prev.groups[1].fields) > 0
                                   THEN prev.groups[1].fields[1].id ELSE NULL]

----------------------------------------------------------------------------
(* The tool calls the remote model can send *)

ToolNames == {"update_field", "confirm_field", "next_step", "get_weather"}

\* args.source is a string: anything but "image" counts as speech
SourceArgs == {"image", "voice"}

ToolCalls ==
    [name : {"update_field"}, field_id : FieldArgs, value : Values,
     source : SourceArgs, step : {NULL}]
    \cup [name : {"confirm_field"}, field_id : FieldArgs, value : {NULL},
          source : {NULL}, step : {NULL}]
    \cup [name : {"next_step"}, field_id : {NULL}, value : {NULL},
          source : {NULL}, step : StepArgs]
    \cup [name : {"get_weather"}, field_id : {NULL}, value : {NULL},
          source : {NULL}, step : {NULL}]

----------------------------------------------------------------------------
(* The engine objects as constructed, and what surrounds them *)

Attempts == 1..MaxAttempts

\* the field initialisers of GeminiLiveModel
NewGeminiLiveModel ==
    /\ isConnected = FALSE
    /\ session = 0
    /\ mediaStream = 0
    /\ inputContext = 0
    /\ sourceNode = 0
    /\ processor = 0
    /\ outputContext = 0
    /\ nextStartTime = 0
    /\ scheduledSources = <<>>

\* no connect() call made, no socket, no microphone in use, nothing said
NewEnvironment ==
    /\ currentTime = 0
    /\ attempts = 0
    /\ pc = [a \in Attempts |-> "unused"]
    /\ sock = [a \in Attempts |-> "none"]
    /\ connectInFlightRef = FALSE
    /\ onaudioprocess = 0
    /\ liveTracks = {}
    /\ awaitingSession = {}
    /\ thrown = FALSE
    /\ mounted = TRUE
    /\ lastCall = "none"
    /\ messages = <<>>
    /\ lastFinal = FALSE
    /\ nodes = <<>>
    /\ stopped = {}
    /\ created = 0
    /\ captured = 0
    /\ sentFrames = <<>>
    /\ storage = saveFormToStorage(createDefaultForm)
    /\ hasResumable = FALSE

\* the field initialisers of GrokLiveModel, and around them the state its
\* callers see (reported), its connect() calls (calls, pc), its captures of
\* the microphone (capture), its sockets (readyState), what the server has
\* done on each (stage), the processors whose handler runs (handlers), the
\* streams whose tracks run (liveTracks) and the last thing sent (sent)
NewGrokLiveModel ==
    [ ws |-> 0, isSessionConfigured |-> FALSE,
      mediaStream |-> 0, inputContext |-> 0, source |-> 0,
      processor |-> 0, outputContext |-> 0, nextStartTime |-> 0,
      reported |-> DISCONNECTED, calls |-> 0,
      pc |-> [a \in Attempts |-> "unused"],
      capture |-> [a \in Attempts |-> "none"],
      readyState |-> [a \in Attempts |-> "none"],
      stage |-> [a \in Attempts |-> "none"],
      handlers |-> {}, liveTracks |-> {}, sent |-> "none", thrown |-> FALSE,
      lastCall |-> "none" ]

----------------------------------------------------------------------------
(* sendText and sendImage of GeminiLiveModel *)

CorrectiveText(step, names) == [kind |-> "corrective", step |-> step, fields |-> names]

UserActionText(fieldId) == [kind |-> "user_action", step |-> NULL, fields |-> <<fieldId>>]

PhotoText == [kind |-> "photo", step |-> NULL, fields |-> <<>>]

PhotoImage == [kind |-> "image", step |-> NULL, fields |-> <<>>]

\* sendText: dropped unless there is a session and isConnected, otherwise
\* a callback is queued on the session promise
sendText(queue, text) ==
    IF session = 0 \/ ~isConnected THEN queue ELSE Append(queue, text)

sendImage(queue, image) ==
    IF session = 0 \/ ~isConnected THEN queue ELSE Append(queue, image)

\* the queued callbacks run: each sends unless isConnected has become false
Delivered(queue) == IF isConnected THEN queue ELSE <<>>

\* the promise in this.session has not resolved: its callbacks wait
SessionPending == session # 0 /\ sock[session] = "connecting"

\* the callbacks that may wait on a session promise at once
MaxQueued == 2

\* the handler can queue its callbacks
QueueHasRoom == SessionPending => Len(sendQueue) < MaxQueued

\* a handler of RaksaApp has queued callbacks on this.session and returns:
\* they run at once if the promise has resolved, and wait otherwise
SentAfterHandler(queue) == IF SessionPending THEN <<>> ELSE Delivered(queue)

WaitingAfterHandler(queue) == IF SessionPending THEN sendQueue \o queue ELSE sendQueue

----------------------------------------------------------------------------
(* State after RaksaApp is mounted *)

Init ==
    /\ form = createDefaultForm
    /\ renderPending = FALSE
    /\ blocked = NullList
    /\ emptyGroupDone \in BOOLEAN
    /\ connectionState = DISCONNECTED
    /\ sessionStarted = FALSE
    /\ callsSeen = 0
    /\ microtasks = <<>>
    /\ toolResponses = <<>>
    /\ sendQueue = <<>>
    /\ transportSends = <<>>
    /\ NewGeminiLiveModel
    /\ NewEnvironment
    /\ grok = NewGrokLiveModel

\* no handler is running and no promise callback is queued
Idle == callsSeen = 0 /\ microtasks = <<>>

\* the render of RaksaApp shows the session layout and it is up to date
SessionLayout ==
    /\ mounted
    /\ ~renderPending
    /\ sessionStarted \/ connectionState = CONNECTED

StartScreen ==
    /\ mounted
    /\ ~renderPending
    /\ ~sessionStarted
    /\ connectionState \notin {CONNECTED, CONNECTING}

dispatchVars == <<callsSeen, microtasks>>
connVars == <<connectionState, sessionStarted>>

----------------------------------------------------------------------------
(* setForm: React applies the updater to the state in the order of the     *)
(* calls; the fibre then has an update to render                           *)

setForm(newForm) ==
    /\ form' = newForm
    /\ renderPending' = TRUE

\* what a variable assigned inside the updater holds once setForm has
\* returned: the assigned value if React ran the updater inside the call
\* (no update was pending), its initial value otherwise
AfterSetForm(assigned, initial) ==
    IF renderPending THEN initial ELSE assigned

----------------------------------------------------------------------------
(* onToolCall of src/App.tsx, registered on the engine *)

sourceOf(arg) == IF arg = "image" THEN "image" ELSE "speech"

\* onToolCall whose last branch is an else: any other name moves the step
onToolCallElseNextStep(call, code) ==
    IF call.name = "update_field"
    THEN /\ setForm(updateField(form, call.field_id, call.value, sourceOf(call.source)))
         /\ blocked' = NullList
         /\ UNCHANGED sendQueue
    ELSE IF call.name = "confirm_field"
    THEN /\ setForm(confirmField(form, call.field_id))
         /\ blocked' = NullList
         /\ UNCHANGED sendQueue
    ELSE LET r == moveToStep(form, call.step, code)
         IN  /\ setForm(r.form)
             /\ blocked' = AfterSetForm(r.blocked, NullList)
             /\ sendQueue' = IF ~blocked'.isNull /\ Len(blocked'.names) > 0
                             THEN sendText(sendQueue,
                                           CorrectiveText(call.step, blocked'.names))
                             ELSE sendQueue

onToolCall(call, code) ==
    IF call.name = "update_field"
    THEN /\ setForm(updateField(form, call.field_id, call.value, sourceOf(call.source)))
         /\ blocked' = NullList
         /\ UNCHANGED sendQueue
    ELSE IF call.name = "confirm_field"
    THEN /\ setForm(confirmField(form, call.field_id))
         /\ blocked' = NullList
         /\ UNCHANGED sendQueue
    ELSE IF call.name = "next_step"
    THEN LET r == moveToStep(form, call.step, code)
         IN  /\ setForm(r.form)
             /\ blocked' = AfterSetForm(r.blocked, NullList)
             /\ sendQueue' = IF ~blocked'.isNull /\ Len(blocked'.names) > 0
                             THEN sendText(sendQueue,
                                           CorrectiveText(call.step, blocked'.names))
                             ELSE sendQueue
    ELSE /\ UNCHANGED <<form, renderPending, sendQueue>>
         /\ blocked' = NullList

----------------------------------------------------------------------------
(* GeminiLiveModel.handleMessage of src/types.ts: the tool calls of one    *)
(* server message                                                          *)

\* the functionResponses that the promise callback of one call sends
ToolResponse(id) == [id |-> id, response |-> [result |-> "ok"]]

\* a dispatcher that answers only the tools it knows
ScheduleKnownToolResponse(queue, call, id) ==
    IF call.name \in {"update_field", "confirm_field", "next_step"}
    THEN Append(queue, id)
    ELSE queue

\* sessionPromise.then(...) queued for one call: the callback keeps the call
ScheduleToolResponse(queue, call, id) == Append(queue, id)

\* generateReceiptCode runs only in the branch that issues the receipt
CodesFor(call) ==
    IF call.name = "next_step" /\ call.step = "receipt"
    THEN ReceiptCodes
    ELSE {CHOOSE code \in ReceiptCodes : TRUE}

\* one iteration of the for loop over message.toolCall.functionCalls: the
\* first one when a server message with function calls arrives, and the
\* later ones of that message; the calls of a message carry distinct ids
DispatchCall(call) ==
    /\ connectionState = CONNECTED
    /\ callsSeen < MaxCallsPerMsg
    /\ \E code \in CodesFor(call) : onToolCall(call, code)
    /\ microtasks' = ScheduleToolResponse(microtasks, call, callsSeen + 1)
    /\ callsSeen' = callsSeen + 1
    /\ toolResponses' = <<>>
    /\ transportSends' = <<>>
    /\ UNCHANGED <<emptyGroupDone, connVars, isConnected, session, detailVars>>

handleMessage == \E call \in ToolCalls : DispatchCall(call)

\* the handler has returned: the queued promise callbacks run, in order,
\* before any other event is handled
RunMicrotasks ==
    /\ callsSeen > 0
    /\ toolResponses' = [i \in 1..Len(microtasks) |-> ToolResponse(microtasks[i])]
    /\ microtasks' = <<>>
    /\ callsSeen' = 0
    /\ blocked' = NullList
    /\ transportSends' = Delivered(sendQueue)
    /\ sendQueue' = <<>>
    /\ UNCHANGED <<form, renderPending, emptyGroupDone, connVars>>
    /\ UNCHANGED <<isConnected, session, detailVars>>

----------------------------------------------------------------------------
(* React and the other state of RaksaApp *)

\* React renders RaksaApp: no update is pending afterwards
Render ==
    /\ Idle
    /\ renderPending
    /\ renderPending' = FALSE
    /\ blocked' = NullList
    /\ toolResponses' = <<>>
    /\ transportSends' = <<>>
    /\ UNCHANGED <<form, emptyGroupDone, connVars, dispatchVars>>
    /\ UNCHANGED <<isConnected, session, sendQueue, detailVars>>

\* onAudioData / onTranscript: setAudioLevel, setMessages
OtherStateUpdate ==
    /\ Idle
    /\ connectionState = CONNECTED
    /\ ~renderPending
    /\ renderPending' = TRUE
    /\ blocked' = NullList
    /\ toolResponses' = <<>>
    /\ transportSends' = <<>>
    /\ UNCHANGED <<form, emptyGroupDone, connVars, dispatchVars>>
    /\ UNCHANGED <<isConnected, session, sendQueue, detailVars>>

----------------------------------------------------------------------------
(* UI handlers of src/App.tsx *)

\* the field that FormPanel shows in its ActiveFieldCard; NoActive if none
NoActive == [id |-> NULL, value |-> "", status |-> "unanswered"]

ActiveField ==
    LET gi == GroupIndex(form, form.step)
    IN  IF gi = 0 THEN NoActive
        ELSE LET fi == FirstIndex(form.groups[gi].fields,
                                  LAMBDA fld : fld.id = form.activeFieldId)
             IN  IF fi = 0 THEN NoActive ELSE form.groups[gi].fields[fi]

\* the green check button: enabled when the field or the draft has text
handleUiConfirm ==
    /\ Idle
    /\ SessionLayout
    /\ QueueHasRoom
    /\ ActiveField # NoActive
    /\ \E draft \in Values :
          /\ ActiveField.value # "" \/ draft # ""
          /\ IF draft # ActiveField.value
             THEN setForm(confirmField(updateField(form, ActiveField.id, draft, "speech"),
                                       ActiveField.id))
             ELSE setForm(confirmField(form, ActiveField.id))
    /\ blocked' = NullList
    /\ toolResponses' = <<>>
    /\ transportSends' = SentAfterHandler(sendText(<<>>, UserActionText(ActiveField.id)))
    /\ sendQueue' = WaitingAfterHandler(sendText(<<>>, UserActionText(ActiveField.id)))
    /\ UNCHANGED <<emptyGroupDone, connVars, dispatchVars>>
    /\ UNCHANGED <<isConnected, session, detailVars>>

\* Save in the edit box of the active field
handleUiEdit ==
    /\ Idle
    /\ SessionLayout
    /\ ActiveField # NoActive
    /\ \E draft \in Values : setForm(updateField(form, ActiveField.id, draft, "speech"))
    /\ blocked' = NullList
    /\ toolResponses' = <<>>
    /\ transportSends' = <<>>
    /\ UNCHANGED <<emptyGroupDone, connVars, dispatchVars>>
    /\ UNCHANGED <<isConnected, session, sendQueue, detailVars>>

\* PhotoCapture is shown at the photo step
handlePhotoCapture ==
    /\ Idle
    /\ SessionLayout
    /\ QueueHasRoom
    /\ form.step = "photo"
    /\ setForm(handlePhotoCaptureUpdater(form))
    /\ blocked' = NullList
    /\ toolResponses' = <<>>
    /\ transportSends' = SentAfterHandler(sendText(sendImage(<<>>, PhotoImage), PhotoText))
    /\ sendQueue' = WaitingAfterHandler(sendText(sendImage(<<>>, PhotoImage), PhotoText))
    /\ UNCHANGED <<emptyGroupDone, connVars, dispatchVars>>
    /\ UNCHANGED <<isConnected, session, detailVars>>

handlePhotoSkip ==
    /\ Idle
    /\ SessionLayout
    /\ form.step = "photo"
    /\ setForm(handlePhotoSkipUpdater(form))
    /\ blocked' = NullList
    /\ toolResponses' = <<>>
    /\ transportSends' = <<>>
    /\ UNCHANGED <<emptyGroupDone, connVars, dispatchVars>>
    /\ UNCHANGED <<isConnected, session, sendQueue, detailVars>>

----------------------------------------------------------------------------
(* Session start, reset and the connection events that reach RaksaApp *)

\* Start New Session: startSession() with a fresh form, then connect()
startSession ==
    /\ Idle
    /\ StartScreen
    /\ sessionStarted' = TRUE
    /\ setForm(createDefaultForm)
    /\ connectionState' = CONNECTING
    /\ blocked' = NullList
    /\ toolResponses' = <<>>
    /\ transportSends' = <<>>
    /\ UNCHANGED <<emptyGroupDone, dispatchVars>>
    /\ UNCHANGED <<isConnected, session, sendQueue, detailVars>>

\* the Reconnect button of the banner
reconnect ==
    /\ Idle
    /\ SessionLayout
    /\ sessionStarted
    /\ connectionState \in {DISCONNECTED, ERROR}
    /\ connectionState' = CONNECTING
    /\ renderPending' = TRUE
    /\ blocked' = NullList
    /\ toolResponses' = <<>>
    /\ transportSends' = <<>>
    /\ UNCHANGED <<isConnected, session>>
    /\ UNCHANGED <<form, emptyGroupDone, sessionStarted, dispatchVars>>
    /\ UNCHANGED <<sendQueue, detailVars>>

\* callbacks.onopen of connect()
SessionOpen ==
    /\ Idle
    /\ connectionState = CONNECTING
    /\ connectionState' = CONNECTED
    /\ renderPending' = TRUE
    /\ blocked' = NullList
    /\ toolResponses' = <<>>
    /\ transportSends' = <<>>
    /\ isConnected' = TRUE
    /\ session' = 1
    /\ UNCHANGED <<form, emptyGroupDone, sessionStarted, dispatchVars>>
    /\ UNCHANGED <<sendQueue, detailVars>>

\* the catch of connect(): token, microphone or handshake failed
ConnectFailed ==
    /\ Idle
    /\ connectionState = CONNECTING
    /\ connectionState' = ERROR
    /\ renderPending' = TRUE
    /\ blocked' = NullList
    /\ toolResponses' = <<>>
    /\ transportSends' = <<>>
    /\ UNCHANGED <<isConnected, session>>
    /\ UNCHANGED <<form, emptyGroupDone, sessionStarted, dispatchVars>>
    /\ UNCHANGED <<sendQueue, detailVars>>

\* callbacks.onclose
TransportClose ==
    /\ Idle
    /\ connectionState \in {CONNECTED, ERROR}
    /\ connectionState' = DISCONNECTED
    /\ renderPending' = TRUE
    /\ blocked' = NullList
    /\ toolResponses' = <<>>
    /\ transportSends' = <<>>
    /\ isConnected' = FALSE
    /\ UNCHANGED session
    /\ UNCHANGED <<form, emptyGroupDone, sessionStarted, dispatchVars>>
    /\ UNCHANGED <<sendQueue, detailVars>>

\* callbacks.onerror
TransportError ==
    /\ Idle
    /\ connectionState = CONNECTED
    /\ connectionState' = ERROR
    /\ renderPending' = TRUE
    /\ blocked' = NullList
    /\ toolResponses' = <<>>
    /\ transportSends' = <<>>
    /\ isConnected' = FALSE
    /\ UNCHANGED session
    /\ UNCHANGED <<form, emptyGroupDone, sessionStarted, dispatchVars>>
    /\ UNCHANGED <<sendQueue, detailVars>>

\* End Session / New Report: the buttons of the banner, the receipt panel
\* and the end-call dialog of the call bar
handleReset ==
    /\ Idle
    /\ SessionLayout
    /\ \/ sessionStarted /\ connectionState # CONNECTED
       \/ form.step # "photo"
    /\ setForm(createDefaultForm)
    /\ sessionStarted' = FALSE
    /\ connectionState' = DISCONNECTED
    /\ blocked' = NullList
    /\ toolResponses' = <<>>
    /\ transportSends' = <<>>
    /\ isConnected' = FALSE
    /\ session' = 0
    /\ UNCHANGED <<emptyGroupDone, dispatchVars>>
    /\ UNCHANGED <<sendQueue, detailVars>>

----------------------------------------------------------------------------

\* the form machine in a session: what the user and the remote model do
\* to the form between Start New Session and End Session
Next ==
    \/ handleMessage
    \/ RunMicrotasks
    \/ Render
    \/ OtherStateUpdate
    \/ handleUiConfirm
    \/ handleUiEdit
    \/ handlePhotoCapture
    \/ handlePhotoSkip
    \/ startSession
    \/ SessionOpen
    \/ handleReset

Spec == Init /\ [][Next]_vars

\* the same with the connection failing, dropping and being reopened
AppNext ==
    \/ Next
    \/ ConnectFailed
    \/ TransportClose
    \/ TransportError
    \/ reconnect

AppSpec == Init /\ [][AppNext]_vars

\* the session with the promise callbacks of handleMessage run by the event
\* loop: the microtask queue is drained once the handler has returned
LiveSpec == Spec /\ WF_vars(RunMicrotasks)

----------------------------------------------------------------------------
(* GeminiLiveModel of src/types.ts in detail: connect() with its suspension *)
(* points, the callbacks of the live session, disconnect() and the audio    *)
(* resources.  A connect() call is known by its number; a resource field    *)
(* holds the number of the call that created the object, 0 for null.        *)

\* what the engine events leave alone
appFrame ==
    <<form, blocked, emptyGroupDone, sessionStarted, dispatchVars, toolResponses,
      callVars, transcriptVars, deviceVars, grok>>

engineFrame == <<appFrame, sendQueue>>

\* onStateChange of RaksaApp: setConnectionState
onStateChange(state) ==
    /\ connectionState' = state
    /\ renderPending' = TRUE

\* an exception raised inside a try block is caught; one raised outside
\* escapes to the caller
Escapes(insideTry) == ~insideTry

\* the states of a socket that has been open
OpenedStates == {"open", "error", "closed"}

\* the promise of live.connect() has resolved: the socket has been open
Resolved(a) == sock[a] \in OpenedStates

\* cleanupAudio, flushAudioQueue included: every call in it is guarded by a
\* null test or a try block
cleanupAudio ==
    /\ scheduledSources' = <<>>
    /\ liveTracks' = liveTracks \ {mediaStream}
    /\ mediaStream' = 0
    /\ processor' = 0
    /\ sourceNode' = 0
    /\ inputContext' = 0
    /\ outputContext' = 0
    /\ nextStartTime' = 0
    /\ onaudioprocess' = 0
    /\ \E closeThrows \in BOOLEAN :
          thrown' = (thrown \/ (closeThrows /\ inputContext # 0 /\ Escapes(TRUE)))
    /\ UNCHANGED currentTime

\* the catch block of connect(), and the finally of its caller
connectCatch(a) ==
    /\ onStateChange(ERROR)
    /\ pc' = [pc EXCEPT ![a] = "returned"]
    /\ connectInFlightRef' = FALSE
    /\ thrown' = (thrown \/ Escapes(TRUE))

\* connect() up to its first await: the state is reported, the token is
\* being fetched
connect ==
    /\ attempts < MaxAttempts
    /\ attempts' = attempts + 1
    /\ pc' = [pc EXCEPT ![attempts + 1] = "token"]
    /\ onStateChange(CONNECTING)
    /\ connectInFlightRef' = TRUE
    /\ lastCall' = "connect"

\* this.ai.live.connect(...) and this.session = sessionPromise: connect()
\* returns with the handshake pending
liveConnect(a) ==
    /\ sock' = [sock EXCEPT ![a] = "connecting"]
    /\ session' = a
    /\ pc' = [pc EXCEPT ![a] = "returned"]
    /\ connectInFlightRef' = FALSE

\* getEphemeralToken has returned a key
TokenFetched(a) ==
    /\ pc[a] = "token"
    /\ pc' = [pc EXCEPT ![a] = "mic"]
    /\ transportSends' = <<>>
    /\ UNCHANGED <<engineFrame, connVars, renderPending, isConnected, session,
                   audioVars, attempts, sock, connectInFlightRef, awaitingSession,
                   thrown>>

\* getEphemeralToken has thrown: no key available
TokenFailed(a) ==
    /\ pc[a] = "token"
    /\ connectCatch(a)
    /\ transportSends' = <<>>
    /\ UNCHANGED <<engineFrame, sessionStarted, isConnected, session, audioVars,
                   attempts, sock, awaitingSession>>

\* getUserMedia has rejected: permission denied
MicDenied(a) ==
    /\ pc[a] = "mic"
    /\ connectCatch(a)
    /\ transportSends' = <<>>
    /\ UNCHANGED <<engineFrame, sessionStarted, isConnected, session, audioVars,
                   attempts, sock, awaitingSession>>

\* getUserMedia has resolved: the stream is kept and the audio graph is
\* built; the output context is running (connect goes on to the
\* handshake), suspended (connect awaits resume()), or the construction
\* of a context throws
MicGranted(a) ==
    /\ pc[a] = "mic"
    /\ mediaStream' = a
    /\ liveTracks' = liveTracks \cup {a}
    /\ transportSends' = <<>>
    /\ UNCHANGED <<engineFrame, isConnected, attempts, awaitingSession,
                   scheduledSources>>
    /\ \E outcome \in {"running", "suspended", "throws"} :
          IF outcome = "throws"
          THEN /\ connectCatch(a)
               /\ UNCHANGED <<sessionStarted, session, sock, inputContext, sourceNode,
                              processor, outputContext, nextStartTime, currentTime,
                              onaudioprocess>>
          ELSE /\ inputContext' = a
               /\ sourceNode' = a
               /\ processor' = a
               /\ onaudioprocess' = 0
               /\ outputContext' = a
               /\ currentTime' = 0
               /\ IF outcome = "suspended"
                  THEN /\ pc' = [pc EXCEPT ![a] = "resume"]
                       /\ UNCHANGED <<connVars, renderPending, session, sock,
                                      connectInFlightRef, nextStartTime, thrown>>
                  ELSE /\ nextStartTime' = 0
                       /\ liveConnect(a)
                       /\ UNCHANGED <<connVars, renderPending, thrown>>

\* outputContext.resume() has resolved: this.outputContext is read again,
\* which throws inside the try block if a teardown has set it to null
Resumed(a) ==
    /\ pc[a] = "resume"
    /\ transportSends' = <<>>
    /\ UNCHANGED <<engineFrame, isConnected, attempts, awaitingSession,
                   mediaStream, inputContext, sourceNode, processor, outputContext,
                   scheduledSources, currentTime, liveTracks, onaudioprocess>>
    /\ IF outputContext = 0
       THEN /\ connectCatch(a)
            /\ UNCHANGED <<sessionStarted, session, sock, nextStartTime>>
       ELSE /\ nextStartTime' = currentTime
            /\ liveConnect(a)
            /\ UNCHANGED <<connVars, renderPending, thrown>>

\* outputContext.resume() has rejected
ResumeFailed(a) ==
    /\ pc[a] = "resume"
    /\ connectCatch(a)
    /\ transportSends' = <<>>
    /\ UNCHANGED <<engineFrame, sessionStarted, isConnected, session, audioVars,
                   attempts, sock, awaitingSession>>

\* startAudioStreaming: the handler is set on the processor that the
\* engine holds now, and it sends on the session that has just opened
startAudioStreaming(a) ==
    IF processor = 0 \/ sourceNode = 0 \/ inputContext = 0
    THEN UNCHANGED onaudioprocess
    ELSE onaudioprocess' = a

\* callbacks.onopen of the session of call a; the promise then resolves:
\* the callbacks that sendText queued on it run (isConnected is true), and
\* a disconnect() that awaits it goes on to this.session = null
onopen(a) ==
    /\ sock[a] = "connecting"
    /\ sock' = [sock EXCEPT ![a] = "open"]
    /\ isConnected' = TRUE
    /\ onStateChange(CONNECTED)
    /\ startAudioStreaming(a)
    /\ session' = IF a \in awaitingSession THEN 0 ELSE session
    /\ awaitingSession' = awaitingSession \ {a}
    /\ transportSends' = IF session = a THEN sendQueue ELSE <<>>
    /\ sendQueue' = IF session = a THEN <<>> ELSE sendQueue
    /\ UNCHANGED <<appFrame, sessionStarted, attempts, pc, connectInFlightRef,
                   thrown, mediaStream, inputContext, sourceNode, processor,
                   outputContext, nextStartTime, scheduledSources, currentTime,
                   liveTracks>>

\* an onclose that leaves the audio as it is
oncloseKeepsAudio(a) ==
    /\ sock[a] \in {"failed", "open", "error"}
    /\ sock' = [sock EXCEPT ![a] = IF Resolved(a) THEN "closed" ELSE "dead"]
    /\ isConnected' = FALSE
    /\ onStateChange(DISCONNECTED)
    /\ transportSends' = <<>>
    /\ UNCHANGED <<engineFrame, sessionStarted, session, attempts, pc,
                   connectInFlightRef, awaitingSession, audioVars, thrown>>

\* callbacks.onclose of the session of call a; a connection that fails
\* before it opens gets onerror first
onclose(a) ==
    /\ sock[a] \in {"failed", "open", "error"}
    /\ sock' = [sock EXCEPT ![a] = IF Resolved(a) THEN "closed" ELSE "dead"]
    /\ isConnected' = FALSE
    /\ cleanupAudio
    /\ onStateChange(DISCONNECTED)
    /\ transportSends' = <<>>
    /\ UNCHANGED <<engineFrame, sessionStarted, session, attempts, pc,
                   connectInFlightRef, awaitingSession>>

\* callbacks.onerror of the session of call a; the promise of a session
\* that fails before it opens never resolves, and its callbacks never run
onerror(a) ==
    /\ sock[a] \in {"connecting", "open"}
    /\ sock' = [sock EXCEPT ![a] = IF Resolved(a) THEN "error" ELSE "failed"]
    /\ isConnected' = FALSE
    /\ cleanupAudio
    /\ onStateChange(ERROR)
    /\ transportSends' = <<>>
    /\ sendQueue' = IF session = a /\ ~Resolved(a) THEN <<>> ELSE sendQueue
    /\ UNCHANGED <<appFrame, sessionStarted, session, attempts, pc,
                   connectInFlightRef, awaitingSession>>

\* a disconnect() that returns at once when the engine is not connected
disconnectIfConnected ==
    /\ lastCall' = IF lastCall \in {"disconnect", "disconnect again"}
                   THEN "disconnect again"
                   ELSE "disconnect"
    /\ IF isConnected
       THEN /\ isConnected' = FALSE
            /\ cleanupAudio
            /\ onStateChange(DISCONNECTED)
            /\ IF session # 0 /\ ~Resolved(session)
               THEN /\ awaitingSession' = awaitingSession \cup {session}
                    /\ UNCHANGED session
               ELSE /\ session' = 0
                    /\ UNCHANGED awaitingSession
       ELSE /\ renderPending' = TRUE
            /\ UNCHANGED <<isConnected, connectionState, session, awaitingSession,
                           audioVars, thrown>>

\* disconnect(): the teardown, then await this.session and this.session =
\* null, at once if the promise has resolved and when it resolves otherwise
disconnect ==
    /\ lastCall' = IF lastCall \in {"disconnect", "disconnect again"}
                   THEN "disconnect again"
                   ELSE "disconnect"
    /\ isConnected' = FALSE
    /\ cleanupAudio
    /\ onStateChange(DISCONNECTED)
    /\ IF session # 0 /\ ~Resolved(session)
       THEN /\ awaitingSession' = awaitingSession \cup {session}
            /\ UNCHANGED session
       ELSE /\ session' = 0
            /\ UNCHANGED awaitingSession

\* the bounds of the playback timeline: buffers pending at once, the
\* longest buffer and the last instant of the output clock
MaxScheduled == 2
MaxDuration == 2
MaxTime == 4

Durations == 1..MaxDuration

Max(x, y) == IF x >= y THEN x ELSE y

AudioFrame == [kind |-> "audio", step |-> NULL, fields |-> <<>>]

\* a flushAudioQueue that rewinds the cursor to the start of the timeline
flushAudioQueueRewinds ==
    /\ scheduledSources' = <<>>
    /\ nextStartTime' = 0

\* flushAudioQueue: the scheduled sources are stopped and forgotten, the
\* cursor returns to the clock of the output context
flushAudioQueue ==
    /\ scheduledSources' = <<>>
    /\ nextStartTime' = IF outputContext # 0 THEN currentTime ELSE nextStartTime

\* a playAudioChunk that starts every buffer at the clock
playAudioChunkAtClock(duration) ==
    LET startTime == currentTime
    IN  IF outputContext = 0
        THEN UNCHANGED <<nextStartTime, scheduledSources, renderPending>>
        ELSE /\ renderPending' = TRUE
             /\ scheduledSources' = Append(scheduledSources,
                                           [start |-> startTime, duration |-> duration])
             /\ nextStartTime' = startTime + duration

\* playAudioChunk: the buffer starts at the later of the clock and the
\* cursor, and the cursor moves to its end
playAudioChunk(duration) ==
    LET startTime == Max(currentTime, nextStartTime)
    IN  IF outputContext = 0
        THEN UNCHANGED <<nextStartTime, scheduledSources, renderPending>>
        ELSE /\ renderPending' = TRUE
             /\ scheduledSources' = Append(scheduledSources,
                                           [start |-> startTime, duration |-> duration])
             /\ nextStartTime' = startTime + duration

\* what a message of the live session leaves alone in the audio fields
playbackFrame ==
    <<engineFrame, connVars, isConnected, session, attemptVars, mediaStream,
      inputContext, sourceNode, processor, outputContext, currentTime, liveTracks,
      onaudioprocess>>

\* callbacks.onmessage with inline audio, on a session that is open
AudioMessage(a, duration) ==
    /\ sock[a] = "open"
    /\ Len(scheduledSources) < MaxScheduled
    /\ playAudioChunk(duration)
    /\ transportSends' = <<>>
    /\ UNCHANGED playbackFrame

\* callbacks.onmessage with serverContent.interrupted, or with an input
\* transcription (the user speaks over the playback)
Interrupted(a) ==
    /\ sock[a] = "open"
    /\ flushAudioQueue
    /\ transportSends' = <<>>
    /\ UNCHANGED <<playbackFrame, renderPending>>

\* source.onended: the source that has played to its end leaves the list
SourceEnded(i) ==
    /\ i \in 1..Len(scheduledSources)
    /\ scheduledSources[i].start + scheduledSources[i].duration <= currentTime
    /\ scheduledSources' = [k \in 1..(Len(scheduledSources) - 1) |->
                               IF k < i THEN scheduledSources[k]
                               ELSE scheduledSources[k + 1]]
    /\ transportSends' = <<>>
    /\ UNCHANGED <<playbackFrame, renderPending, nextStartTime>>

\* the clock of the output context advances
Tick ==
    /\ outputContext # 0
    /\ currentTime < MaxTime
    /\ currentTime' = currentTime + 1
    /\ transportSends' = <<>>
    /\ UNCHANGED <<engineFrame, connVars, renderPending, isConnected, session,
                   attemptVars, mediaStream, inputContext, sourceNode, processor,
                   outputContext, nextStartTime, scheduledSources, liveTracks,
                   onaudioprocess>>

\* processor.onaudioprocess: a frame of the microphone.  The handler
\* returns if the engine is not connected; otherwise the level goes to
\* the visualiser and the frame to the session the handler was set for
AudioProcess ==
    /\ onaudioprocess # 0
    /\ processor # 0
    /\ renderPending' = (renderPending \/ isConnected)
    /\ transportSends' = IF isConnected /\ sock[onaudioprocess] = "open"
                         THEN <<AudioFrame>>
                         ELSE <<>>
    /\ UNCHANGED <<engineFrame, connVars, isConnected, session, audioVars,
                   attemptVars>>

----------------------------------------------------------------------------
(* The callers of the engine in RaksaApp *)

\* Start New Session: startSession() returns if a connect is in flight
startSessionConnect ==
    /\ Idle
    /\ StartScreen
    /\ ~connectInFlightRef
    /\ sessionStarted' = TRUE
    /\ setForm(createDefaultForm)
    /\ connect
    /\ blocked' = NullList
    /\ toolResponses' = <<>>
    /\ transportSends' = <<>>
    /\ messages' = <<>>
    /\ UNCHANGED <<emptyGroupDone, dispatchVars, sendQueue, grok, isConnected,
                   session, audioVars, sock, awaitingSession, thrown, mounted,
                   lastFinal, deviceVars>>

\* the Reconnect button of the banner: reconnect() returns if a connect is
\* in flight
reconnectConnect ==
    /\ Idle
    /\ SessionLayout
    /\ sessionStarted
    /\ connectionState \in {DISCONNECTED, ERROR}
    /\ ~connectInFlightRef
    /\ connect
    /\ blocked' = NullList
    /\ toolResponses' = <<>>
    /\ transportSends' = <<>>
    /\ UNCHANGED <<form, emptyGroupDone, sessionStarted, dispatchVars, sendQueue,
                   grok, isConnected, session, audioVars, sock, awaitingSession,
                   thrown, mounted, transcriptVars, deviceVars>>

\* End Session and Start over: handleReset() calls disconnect() whatever
\* connect() is doing
handleResetDisconnect ==
    /\ Idle
    /\ SessionLayout
    /\ \/ sessionStarted /\ connectionState # CONNECTED
       \/ form.step # "photo"
    /\ setForm(createDefaultForm)
    /\ sessionStarted' = FALSE
    /\ disconnect
    /\ blocked' = NullList
    /\ toolResponses' = <<>>
    /\ transportSends' = <<>>
    /\ messages' = <<>>
    /\ UNCHANGED <<emptyGroupDone, dispatchVars, sendQueue, grok, attempts, pc,
                   sock, connectInFlightRef, mounted, lastFinal, deviceVars>>

\* RaksaApp unmounts: the cleanup of its effect calls disconnect() and
\* forgets the engine
unmount ==
    /\ mounted
    /\ mounted' = FALSE
    /\ disconnect
    /\ toolResponses' = <<>>
    /\ transportSends' = <<>>
    /\ UNCHANGED <<form, blocked, emptyGroupDone, sessionStarted, dispatchVars,
                   sendQueue, grok, attempts, pc, sock, connectInFlightRef,
                   transcriptVars, deviceVars>>

\* the engine with its callers, the user at the form and the events of the
\* browser and of the network
EngineNext ==
    \/ startSessionConnect
    \/ reconnectConnect
    \/ handleResetDisconnect
    \/ unmount
    \/ \E a \in Attempts :
          \/ TokenFetched(a)
          \/ TokenFailed(a)
          \/ MicGranted(a)
          \/ MicDenied(a)
          \/ Resumed(a)
          \/ ResumeFailed(a)
          \/ onopen(a)
          \/ onclose(a)
          \/ onerror(a)
          \/ Interrupted(a)
          \/ scheduledSources = <<>> /\ AudioMessage(a, MaxDuration)
    \/ AudioProcess
    \/ Render
    \/ handlePhotoSkip
    \/ handleUiConfirm

EngineSpec == Init /\ [][EngineNext]_vars

\* the playback of one session: the session is started and opens, then the
\* remote model sends audio of any duration and interruptions while the
\* clock of the output context runs
PlaybackNext ==
    \/ startSessionConnect
    \/ TokenFetched(1)
    \/ MicGranted(1)
    \/ onopen(1)
    \/ \E duration \in Durations : AudioMessage(1, duration)
    \/ Interrupted(1)
    \/ \E i \in 1..MaxScheduled : SourceEnded(i)
    \/ Tick

PlaybackSpec == Init /\ [][PlaybackNext]_vars

----------------------------------------------------------------------------
(* GrokLiveModel of src/models/grok.ts.  No component of the repository    *)
(* constructs it: its caller is taken to call connect() as RaksaApp does,  *)
(* when the reported state is Disconnected or Error and no connect() is in *)
(* flight, and disconnect() at any time.                                    *)

\* every variable but the Grok engine
notGrok ==
    <<form, renderPending, blocked, emptyGroupDone, connVars, dispatchVars,
      toolResponses, isConnected, session, sendVars, audioVars, attemptVars,
      callVars, transcriptVars, deviceVars>>

\* connect() up to await fetchEphemeralToken()
grokConnect ==
    /\ grok.reported \in {DISCONNECTED, ERROR}
    /\ \A a \in Attempts : grok.pc[a] # "token"
    /\ grok.calls < MaxAttempts
    /\ grok' = [grok EXCEPT !.reported = CONNECTING,
                            !.isSessionConfigured = FALSE,
                            !.calls = @ + 1,
                            !.pc[grok.calls + 1] = "token",
                            !.lastCall = "connect",
                            !.sent = "none"]
    /\ UNCHANGED notGrok

\* the token has arrived: new WebSocket(...) and its handlers
grokTokenFetched(a) ==
    /\ grok.pc[a] = "token"
    /\ grok' = [grok EXCEPT !.ws = a,
                            !.readyState[a] = "connecting",
                            !.pc[a] = "returned",
                            !.sent = "none"]
    /\ UNCHANGED notGrok

\* fetchEphemeralToken has thrown: the catch block of connect()
grokTokenFailed(a) ==
    /\ grok.pc[a] = "token"
    /\ grok' = [grok EXCEPT !.reported = ERROR,
                            !.pc[a] = "returned",
                            !.thrown = @ \/ Escapes(TRUE),
                            !.sent = "none"]
    /\ UNCHANGED notGrok

\* ws.onopen: the socket is open, nothing is reported
grokWsOpen(a) ==
    /\ grok.readyState[a] = "connecting"
    /\ grok' = [grok EXCEPT !.readyState[a] = "open", !.sent = "none"]
    /\ UNCHANGED notGrok

\* sendSessionUpdate: session.update goes out on this.ws if it is open
sendSessionUpdate(g, a) ==
    IF g.ws = 0 \/ g.readyState[g.ws] # "open"
    THEN [g EXCEPT !.stage[a] = "created", !.sent = "none"]
    ELSE [g EXCEPT !.stage[a] = "created", !.stage[g.ws] = "configuring",
                   !.sent = "session.update"]

\* handleMessage, conversation.created on socket a
grokConversationCreated(a) ==
    /\ grok.readyState[a] = "open"
    /\ grok.stage[a] = "none"
    /\ grok' = IF grok.isSessionConfigured
               THEN [grok EXCEPT !.stage[a] = "created", !.sent = "none"]
               ELSE sendSessionUpdate(grok, a)
    /\ UNCHANGED notGrok

\* handleMessage, session.updated on socket a: the engine is configured,
\* Connected is reported, startAudioCapture() begins and is not awaited
grokSessionUpdated(a) ==
    /\ grok.readyState[a] = "open"
    /\ grok.stage[a] = "configuring"
    /\ grok' = IF grok.isSessionConfigured
               THEN [grok EXCEPT !.stage[a] = "updated", !.sent = "none"]
               ELSE [grok EXCEPT !.stage[a] = "updated",
                                 !.isSessionConfigured = TRUE,
                                 !.reported = CONNECTED,
                                 !.capture[a] = "mic",
                                 !.sent = "none"]
    /\ UNCHANGED notGrok

\* the end of startAudioCapture: the handler is set on this.processor and
\* the processor is connected
grokStartStreaming(g, a) ==
    [g EXCEPT !.nextStartTime = 0,
              !.handlers = @ \cup {g.processor},
              !.capture[a] = "streaming",
              !.sent = "none"]

\* startAudioCapture: getUserMedia has resolved, the audio graph is built
grokMicGranted(a) ==
    /\ grok.capture[a] = "mic"
    /\ \E suspended \in BOOLEAN :
          LET built == [grok EXCEPT !.mediaStream = a,
                                    !.liveTracks = @ \cup {a},
                                    !.inputContext = a,
                                    !.source = a,
                                    !.processor = a,
                                    !.outputContext = a,
                                    !.capture[a] = "resume",
                                    !.sent = "none"]
          IN  grok' = IF suspended THEN built ELSE grokStartStreaming(built, a)
    /\ UNCHANGED notGrok

\* startAudioCapture: getUserMedia has rejected; nothing awaits the
\* promise of startAudioCapture
grokMicDenied(a) ==
    /\ grok.capture[a] = "mic"
    /\ grok' = [grok EXCEPT !.capture[a] = "rejected", !.sent = "none"]
    /\ UNCHANGED notGrok

\* startAudioCapture: outputContext.resume() has settled; reading
\* this.outputContext throws if disconnect() has set it to null
grokResumed(a) ==
    /\ grok.capture[a] = "resume"
    /\ \E resumed \in BOOLEAN :
          grok' = IF resumed /\ grok.outputContext # 0
                  THEN grokStartStreaming(grok, a)
                  ELSE [grok EXCEPT !.capture[a] = "rejected", !.sent = "none"]
    /\ UNCHANGED notGrok

\* processor.onaudioprocess of processor p
grokAudioProcess(p) ==
    /\ p \in grok.handlers
    /\ grok' = [grok EXCEPT !.sent =
                   IF /\ grok.isSessionConfigured
                      /\ grok.ws # 0
                      /\ grok.readyState[grok.ws] = "open"
                   THEN "audio" ELSE "none"]
    /\ UNCHANGED notGrok

\* sendText of the Grok engine
grokSendText ==
    /\ grok' = [grok EXCEPT !.sent =
                   IF /\ grok.ws # 0
                      /\ grok.readyState[grok.ws] = "open"
                      /\ grok.isSessionConfigured
                   THEN "text" ELSE "none"]
    /\ UNCHANGED notGrok

\* ws.onclose of socket a: it was open, or it has failed (onerror came
\* first), or close() was called on it
grokWsClose(a) ==
    /\ grok.readyState[a] \in {"open", "closing", "failed"}
    /\ grok' = [grok EXCEPT !.readyState[a] = "closed",
                            !.isSessionConfigured = FALSE,
                            !.reported = DISCONNECTED,
                            !.sent = "none"]
    /\ UNCHANGED notGrok

\* ws.onerror of socket a: the connection has failed and is closing
grokWsError(a) ==
    /\ grok.readyState[a] \in {"connecting", "open"}
    /\ grok' = [grok EXCEPT !.readyState[a] = "failed",
                            !.reported = ERROR,
                            !.sent = "none"]
    /\ UNCHANGED notGrok

\* disconnect() of the Grok engine: every call on a field is guarded by a
\* null test
grokDisconnect ==
    /\ grok' = [grok EXCEPT
                  !.isSessionConfigured = FALSE,
                  !.reported = DISCONNECTED,
                  !.readyState = IF grok.ws # 0 /\ @[grok.ws] \in {"connecting", "open"}
                                 THEN [@ EXCEPT ![grok.ws] = "closing"]
                                 ELSE @,
                  !.liveTracks = @ \ {grok.mediaStream},
                  !.handlers = @ \ {grok.processor},
                  !.ws = 0,
                  !.mediaStream = 0,
                  !.processor = 0,
                  !.source = 0,
                  !.inputContext = 0,
                  !.outputContext = 0,
                  !.nextStartTime = 0,
                  !.lastCall = IF @ \in {"disconnect", "disconnect again"}
                               THEN "disconnect again"
                               ELSE "disconnect",
                  !.sent = "none"]
    /\ UNCHANGED notGrok

GrokNext ==
    \/ grokConnect
    \/ grokDisconnect
    \/ grokSendText
    \/ \E a \in Attempts :
          \/ grokTokenFetched(a)
          \/ grokTokenFailed(a)
          \/ grokWsOpen(a)
          \/ grokConversationCreated(a)
          \/ grokSessionUpdated(a)
          \/ grokMicGranted(a)
          \/ grokMicDenied(a)
          \/ grokResumed(a)
          \/ grokAudioProcess(a)
          \/ grokWsClose(a)
          \/ grokWsError(a)

GrokSpec == Init /\ [][GrokNext]_vars

\* RaksaApp constructs one engine: the session runs on the Gemini engine
\* or on the Grok engine
EnginesNext ==
    \/ grok = NewGrokLiveModel /\ EngineNext
    \/ attempts = 0 /\ lastCall = "none" /\ GrokNext

EnginesSpec == Init /\ [][EnginesNext]_vars

----------------------------------------------------------------------------
(* The transcript of RaksaApp and the server content of the live session:  *)
(* onTranscript of src/App.tsx, sanitizeTranscript and the first part of    *)
(* handleMessage of src/types.ts.  A text is the sequence of its pieces:    *)
(* words, blanks and control tokens; joining two texts joins the sequences. *)
(* The id and the timestamp of a turn are left out.                         *)

\* the pieces that String.prototype.trim() strips
Whitespace == {" "}

\* the pieces that the pattern of sanitizeTranscript matches
ControlTokens == {"<ctrl46>"}

Roles == {"user", "model"}

\* turns kept in the transcript, and pieces kept in the text of a turn
MaxTurns == 2
MaxTextLen == 3

\* String.prototype.trim(): the text from its first to its last piece that
\* is not whitespace
Trim(text) ==
    LET solid == {i \in 1..Len(text) : text[i] \notin Whitespace}
    IN  IF solid = {} THEN <<>>
        ELSE SubSeq(text,
                    CHOOSE i \in solid : \A j \in solid : i <= j,
                    CHOOSE i \in solid : \A j \in solid : i >= j)

NotControl(piece) == piece \notin ControlTokens

sanitizeTranscript(text) == Trim(SelectSeq(text, NotControl))

\* an onTranscript that trims what it appends
onTranscriptTrimsAppended(prev, text, role, isFinal) ==
    IF isFinal THEN prev
    ELSE IF prev = <<>> \/ prev[Len(prev)].role # role
    THEN IF Trim(text) # <<>> THEN Append(prev, [role |-> role, text |-> text])
                              ELSE prev
    ELSE [prev EXCEPT ![Len(prev)].text = @ \o Trim(text)]

\* an onTranscript that opens a turn for any text that is not empty
onTranscriptOpensBlank(prev, text, role, isFinal) ==
    IF isFinal THEN prev
    ELSE IF prev = <<>> \/ prev[Len(prev)].role # role
    THEN IF text # <<>> THEN Append(prev, [role |-> role, text |-> text])
                        ELSE prev
    ELSE [prev EXCEPT ![Len(prev)].text = @ \o text]

\* onTranscript: the messages after its setMessages updater has run on
\* prev; a final event returns before setMessages
onTranscript(prev, text, role, isFinal) ==
    IF isFinal THEN prev
    ELSE IF prev = <<>> \/ prev[Len(prev)].role # role
    THEN IF Trim(text) # <<>> THEN Append(prev, [role |-> role, text |-> text])
                              ELSE prev
    ELSE [prev EXCEPT ![Len(prev)].text = @ \o text]

\* the transcript fits the bounds of the model
Fits(history) ==
    /\ Len(history) <= MaxTurns
    /\ \A i \in 1..Len(history) : Len(history[i].text) <= MaxTextLen

\* the texts an engine can hand to onTranscript
DeltaTexts == {<<>>, <<" ">>, <<"Hi">>, <<" ", "there">>}

\* an engine with an open session calls the onTranscript that RaksaApp has
\* registered on it
TranscriptEvent(text, role, isFinal) ==
    /\ mounted
    /\ Idle
    /\ \E a \in Attempts : sock[a] = "open"
    /\ messages' = onTranscript(messages, text, role, isFinal)
    /\ Fits(messages')
    /\ lastFinal' = isFinal
    /\ renderPending' = (renderPending \/ ~isFinal)
    /\ blocked' = NullList
    /\ toolResponses' = <<>>
    /\ transportSends' = <<>>
    /\ UNCHANGED <<form, emptyGroupDone, connVars, dispatchVars, isConnected,
                   session, sendQueue, audioVars, attemptVars, callVars, deviceVars,
                   grok>>

\* the texts of the transcriptions in a server message; the empty text
\* stands for a message without the transcription as well
RawTexts == {<<>>, <<" ">>, <<"<ctrl46>">>, <<"Hi">>, <<" ", "there">>}

\* message.serverContent: interrupted, inputTranscription.text, the seconds
\* of audio in modelTurn.parts[0].inlineData (0 for none),
\* outputTranscription.text and turnComplete
ServerContents ==
    [interrupted : BOOLEAN, inputTranscription : RawTexts, audio : 0..MaxDuration,
     outputTranscription : RawTexts, turnComplete : BOOLEAN]

\* the cursor and the scheduled sources after flushAudioQueue
AfterFlush(audio) ==
    [scheduledSources |-> <<>>,
     nextStartTime    |-> IF outputContext # 0 THEN currentTime
                                               ELSE audio.nextStartTime]

\* the cursor and the scheduled sources after playAudioChunk
AfterChunk(audio, duration) ==
    IF outputContext = 0 THEN audio
    ELSE LET startTime == Max(currentTime, audio.nextStartTime)
         IN  [scheduledSources |-> Append(audio.scheduledSources,
                                          [start |-> startTime, duration |-> duration]),
              nextStartTime    |-> startTime + duration]

\* handleMessage up to its tool calls, with flushForSpeech saying whether
\* an input transcription flushes the playback: the flush for an
\* interruption and for the speech of the user, the user delta, the audio
\* chunk, the model delta and the turn-complete marker, in that order
handleServerContent(a, m, flushForSpeech) ==
    LET audio0   == [scheduledSources |-> scheduledSources,
                     nextStartTime |-> nextStartTime]
        audio1   == IF m.interrupted THEN AfterFlush(audio0) ELSE audio0
        audio2   == IF m.inputTranscription # <<>> /\ flushForSpeech
                    THEN AfterFlush(audio1) ELSE audio1
        plays    == m.audio # 0 /\ outputContext # 0
        audio3   == IF plays THEN AfterChunk(audio2, m.audio) ELSE audio2
        cleanIn  == sanitizeTranscript(m.inputTranscription)
        cleanOut == sanitizeTranscript(m.outputTranscription)
        turns1   == IF cleanIn # <<>> THEN onTranscript(messages, cleanIn, "user", FALSE)
                                      ELSE messages
        turns2   == IF cleanOut # <<>> THEN onTranscript(turns1, cleanOut, "model", FALSE)
                                       ELSE turns1
        turns3   == IF m.turnComplete THEN onTranscript(turns2, <<>>, "model", TRUE)
                                      ELSE turns2
    IN  /\ sock[a] = "open"
        /\ Idle
        /\ messages' = turns3
        /\ Fits(messages')
        /\ scheduledSources' = audio3.scheduledSources
        /\ Len(scheduledSources') <= MaxScheduled
        /\ nextStartTime' = audio3.nextStartTime
        /\ lastFinal' = IF m.turnComplete THEN TRUE
                        ELSE IF cleanIn # <<>> \/ cleanOut # <<>> THEN FALSE
                        ELSE lastFinal
        /\ renderPending' = (renderPending \/ plays \/ cleanIn # <<>> \/ cleanOut # <<>>)
        /\ blocked' = NullList
        /\ toolResponses' = <<>>
        /\ transportSends' = <<>>
        /\ UNCHANGED <<form, emptyGroupDone, connVars, dispatchVars, isConnected,
                       session, sendQueue, attemptVars, callVars, deviceVars, grok,
                       mediaStream,
                       inputContext, sourceNode, processor, outputContext,
                       currentTime, liveTracks, onaudioprocess>>

\* a handleMessage that flushes the playback only when the server says
\* the model was interrupted
onmessageFlushesOnInterruptOnly(a, m) == handleServerContent(a, m, FALSE)

\* callbacks.onmessage of the session of call a with server content
onmessage(a, m) == handleServerContent(a, m, TRUE)

\* the server content that carries speech of the user, audio and
\* interruptions, and no text of the model
SpeechContents ==
    {m \in ServerContents :
        /\ m.inputTranscription \in {<<>>, <<" ">>, <<"Hi">>}
        /\ m.outputTranscription = <<>>
        /\ ~m.turnComplete}

\* the server content that carries transcriptions and turn-complete
\* markers, and no audio
TextContents == {m \in ServerContents : ~m.interrupted /\ m.audio = 0}

\* the playback of one session under the speech of the user: the session
\* is started and opens, then the remote model sends audio, interruptions
\* and what the user says while the clock of the output context runs
BargeInNext ==
    \/ startSessionConnect
    \/ TokenFetched(1)
    \/ MicGranted(1)
    \/ Resumed(1)
    \/ onopen(1)
    \/ \E m \in SpeechContents : onmessage(1, m)
    \/ \E i \in 1..MaxScheduled : SourceEnded(i)
    \/ Tick

BargeInSpec == Init /\ [][BargeInNext]_vars

\* the transcript of one session: the session is started and opens, then
\* the remote model sends transcriptions and turn-complete markers, and an
\* engine hands deltas to onTranscript
TranscriptNext ==
    \/ startSessionConnect
    \/ TokenFetched(1)
    \/ MicGranted(1)
    \/ Resumed(1)
    \/ onopen(1)
    \/ \E m \in TextContents : onmessage(1, m)
    \/ \E text \in DeltaTexts, role \in Roles, isFinal \in BOOLEAN :
          TranscriptEvent(text, role, isFinal)

TranscriptSpec == Init /\ [][TranscriptNext]_vars

----------------------------------------------------------------------------
(* The pending set of the playback with the identity of its nodes: every  *)
(* playAudioChunk creates a node of its own, stop() makes the ended event *)
(* of a node fire later, and source.onended looks its node up by identity *)

\* the bound on the buffer sources created in one behaviour
MaxNodes == 3

\* Array.prototype.indexOf by identity, counted from 1: 0 is its -1
indexOf(list, x) ==
    IF \E i \in 1..Len(list) : list[i] = x
    THEN CHOOSE i \in 1..Len(list) :
            list[i] = x /\ \A j \in 1..(i - 1) : list[j] # x
    ELSE 0

\* list.splice(i, 1) with i counted from 1
Splice(list, i) ==
    [k \in 1..(Len(list) - 1) |-> IF k < i THEN list[k] ELSE list[k + 1]]

\* the elements of a list
Elements(list) == {list[i] : i \in 1..Len(list)}

\* the state of RaksaApp and of the other engine, which the playback
\* leaves alone
appCore ==
    <<form, blocked, emptyGroupDone, sessionStarted, dispatchVars, toolResponses,
      callVars, transcriptVars, grok>>

\* what a message or an ended event leaves alone besides the playback
nodeFrame ==
    <<appCore, frameVars, storageVars, sendQueue, connVars, isConnected, session, attemptVars,
      mediaStream, inputContext, sourceNode, processor, outputContext,
      currentTime, liveTracks, onaudioprocess>>

\* the loop of flushAudioQueue over the nodes: src.stop() on each, after
\* which the list is replaced by an empty one
stopSources ==
    /\ stopped' = stopped \cup Elements(nodes)
    /\ nodes' = <<>>
    /\ UNCHANGED created

\* callbacks.onmessage with inline audio: playAudioChunk pushes the node
\* it has created
AudioMessageOfNode(a, duration) ==
    /\ sock[a] = "open"
    /\ Len(scheduledSources) < MaxScheduled
    /\ created < MaxNodes
    /\ playAudioChunk(duration)
    /\ IF outputContext = 0
       THEN UNCHANGED nodeVars
       ELSE /\ created' = created + 1
            /\ nodes' = Append(nodes, created + 1)
            /\ UNCHANGED stopped
    /\ transportSends' = <<>>
    /\ UNCHANGED nodeFrame

\* callbacks.onmessage with serverContent.interrupted
InterruptedOfNodes(a) ==
    /\ sock[a] = "open"
    /\ flushAudioQueue
    /\ stopSources
    /\ transportSends' = <<>>
    /\ UNCHANGED <<nodeFrame, renderPending>>

\* the node has played to its end, or was stopped: its ended event fires
EndedEventDue(n) ==
    \/ n \in stopped
    \/ /\ indexOf(nodes, n) # 0
       /\ LET src == scheduledSources[indexOf(nodes, n)]
          IN  src.start + src.duration <= currentTime

\* a source.onended that splices at whatever indexOf returns: splice(-1, 1)
\* removes the last element
onendedSplicesUnchecked(n) ==
    LET idx  == indexOf(nodes, n)
        at   == IF idx # 0 THEN idx ELSE Len(nodes)
    IN  /\ EndedEventDue(n)
        /\ stopped' = stopped \ {n}
        /\ IF at # 0
           THEN /\ nodes' = Splice(nodes, at)
                /\ scheduledSources' = Splice(scheduledSources, at)
           ELSE UNCHANGED <<nodes, scheduledSources>>
        /\ transportSends' = <<>>
        /\ UNCHANGED <<nodeFrame, renderPending, nextStartTime, created>>

\* source.onended of node n: the node leaves the list if it is in it
onended(n) ==
    LET idx == indexOf(nodes, n)
    IN  /\ EndedEventDue(n)
        /\ stopped' = stopped \ {n}
        /\ IF idx # 0
           THEN /\ nodes' = Splice(nodes, idx)
                /\ scheduledSources' = Splice(scheduledSources, idx)
           ELSE UNCHANGED <<nodes, scheduledSources>>
        /\ transportSends' = <<>>
        /\ UNCHANGED <<nodeFrame, renderPending, nextStartTime, created>>

\* callbacks.onclose, with the nodes that cleanupAudio stops
oncloseOfNodes(a) ==
    /\ sock[a] \in {"failed", "open", "error"}
    /\ sock' = [sock EXCEPT ![a] = IF Resolved(a) THEN "closed" ELSE "dead"]
    /\ isConnected' = FALSE
    /\ cleanupAudio
    /\ stopSources
    /\ onStateChange(DISCONNECTED)
    /\ transportSends' = <<>>
    /\ UNCHANGED <<appCore, frameVars, storageVars, sendQueue, session, attempts, pc,
                   connectInFlightRef, awaitingSession>>

\* callbacks.onerror, with the nodes that cleanupAudio stops
onerrorOfNodes(a) ==
    /\ sock[a] \in {"connecting", "open"}
    /\ sock' = [sock EXCEPT ![a] = IF Resolved(a) THEN "error" ELSE "failed"]
    /\ isConnected' = FALSE
    /\ cleanupAudio
    /\ stopSources
    /\ onStateChange(ERROR)
    /\ transportSends' = <<>>
    /\ sendQueue' = IF session = a /\ ~Resolved(a) THEN <<>> ELSE sendQueue
    /\ UNCHANGED <<appCore, frameVars, storageVars, session, attempts, pc,
                   connectInFlightRef, awaitingSession>>

\* handleReset of RaksaApp, with the nodes that disconnect() stops
handleResetOfNodes ==
    /\ Idle
    /\ SessionLayout
    /\ \/ sessionStarted /\ connectionState # CONNECTED
       \/ form.step # "photo"
    /\ setForm(createDefaultForm)
    /\ sessionStarted' = FALSE
    /\ disconnect
    /\ stopSources
    /\ blocked' = NullList
    /\ toolResponses' = <<>>
    /\ transportSends' = <<>>
    /\ messages' = <<>>
    /\ UNCHANGED <<emptyGroupDone, dispatchVars, sendQueue, grok, attempts, pc,
                   sock, connectInFlightRef, mounted, lastFinal, frameVars,
                   storageVars>>

\* one session whose playback is scheduled, interrupted, played to its
\* end and torn down by the transport or by the user, who can end the
\* session once the photo step is behind
PendingNext ==
    \/ startSessionConnect
    \/ TokenFetched(1)
    \/ MicGranted(1)
    \/ Resumed(1)
    \/ onopen(1)
    \/ \E duration \in Durations : AudioMessageOfNode(1, duration)
    \/ InterruptedOfNodes(1)
    \/ \E n \in 1..MaxNodes : onended(n)
    \/ Tick
    \/ oncloseOfNodes(1)
    \/ onerrorOfNodes(1)
    \/ Render
    \/ handlePhotoSkip
    \/ handleResetOfNodes

PendingSpec == Init /\ [][PendingNext]_vars

----------------------------------------------------------------------------
(* The frames of the microphone, numbered in the order of their            *)
(* onaudioprocess events, and the frames handed to a transport              *)

\* the bound on the frames captured in one behaviour
MaxFrames == 3

\* an onaudioprocess of the Gemini engine that hands over the frame of
\* the event before
AudioProcessResendsFrame ==
    /\ onaudioprocess # 0
    /\ processor # 0
    /\ captured < MaxFrames
    /\ captured' = captured + 1
    /\ renderPending' = (renderPending \/ isConnected)
    /\ sentFrames' = IF isConnected /\ sock[onaudioprocess] = "open" /\ captured > 0
                     THEN Append(sentFrames, captured)
                     ELSE sentFrames
    /\ transportSends' = IF sentFrames' # sentFrames THEN <<AudioFrame>> ELSE <<>>
    /\ UNCHANGED <<appCore, nodeVars, storageVars, sendQueue, connVars,
                   isConnected, session, audioVars, attemptVars>>

\* processor.onaudioprocess of the Gemini engine with the frame of the
\* event: the handler returns if the engine is not connected; otherwise it
\* registers a callback on the promise of the session it was set for,
\* which runs when the handler has returned and hands the frame to the
\* session unless sendRealtimeInput throws
AudioProcessOfFrame ==
    /\ onaudioprocess # 0
    /\ processor # 0
    /\ captured < MaxFrames
    /\ captured' = captured + 1
    /\ renderPending' = (renderPending \/ isConnected)
    /\ sentFrames' = IF isConnected /\ sock[onaudioprocess] = "open"
                     THEN Append(sentFrames, captured + 1)
                     ELSE sentFrames
    /\ transportSends' = IF sentFrames' # sentFrames THEN <<AudioFrame>> ELSE <<>>
    /\ UNCHANGED <<appCore, nodeVars, storageVars, sendQueue, connVars,
                   isConnected, session, audioVars, attemptVars>>

\* processor.onaudioprocess of processor p of the Grok engine with the
\* frame of the event: ws.send inside the handler
grokAudioProcessOfFrame(p) ==
    /\ p \in grok.handlers
    /\ captured < MaxFrames
    /\ captured' = captured + 1
    /\ LET sends == /\ grok.isSessionConfigured
                    /\ grok.ws # 0
                    /\ grok.readyState[grok.ws] = "open"
       IN  /\ grok' = [grok EXCEPT !.sent = IF sends THEN "audio" ELSE "none"]
           /\ sentFrames' = IF sends THEN Append(sentFrames, captured + 1)
                                     ELSE sentFrames
    /\ UNCHANGED <<form, renderPending, blocked, emptyGroupDone, connVars,
                   dispatchVars, toolResponses, isConnected, session, sendVars,
                   audioVars, attemptVars, callVars, transcriptVars, nodeVars,
                   storageVars>>

\* the Gemini engine with its callers and the microphone
GeminiFramesNext ==
    \/ startSessionConnect
    \/ reconnectConnect
    \/ handleResetDisconnect
    \/ \E a \in Attempts :
          \/ TokenFetched(a)
          \/ MicGranted(a)
          \/ Resumed(a)
          \/ onopen(a)
          \/ onclose(a)
          \/ onerror(a)
    \/ AudioProcessOfFrame
    \/ Render
    \/ handlePhotoSkip

\* the Grok engine with its callers and the microphone
GrokFramesNext ==
    \/ grokConnect
    \/ grokDisconnect
    \/ \E a \in Attempts :
          \/ grokTokenFetched(a)
          \/ grokWsOpen(a)
          \/ grokConversationCreated(a)
          \/ grokSessionUpdated(a)
          \/ grokMicGranted(a)
          \/ grokResumed(a)
          \/ grokAudioProcessOfFrame(a)
          \/ grokWsClose(a)
          \/ grokWsError(a)

\* the session runs on one of the two engines
FramesNext ==
    \/ grok = NewGrokLiveModel /\ GeminiFramesNext
    \/ attempts = 0 /\ lastCall = "none" /\ GrokFramesNext

FramesSpec == Init /\ [][FramesNext]_vars

----------------------------------------------------------------------------
(* The saved form: the effect that persists the form after every render,  *)
(* the reload of the page, which mounts RaksaApp anew, and the Resume      *)
(* Previous Session button of the start screen                             *)

\* the state of the engines below the level of the form machine
detailRest ==
    <<audioVars, attemptVars, callVars, transcriptVars, nodeVars, frameVars, grok>>

\* the page is reloaded and RaksaApp mounts: every useState starts from its
\* initial value, a new engine is constructed, and the effects of the
\* mount run in the order of their declaration: setHasResumable(
\* hasSavedInProgressForm()), then saveFormToStorage(form) with the form
\* of the first render.  The page is left between two tasks
reload ==
    /\ mounted
    /\ Idle
    /\ form' = createDefaultForm
    /\ hasResumable' = hasSavedInProgressForm(storage)
    /\ storage' = saveFormToStorage(form')
    /\ renderPending' = TRUE
    /\ connectionState' = DISCONNECTED
    /\ sessionStarted' = FALSE
    /\ callsSeen' = 0
    /\ microtasks' = <<>>
    /\ blocked' = NullList
    /\ toolResponses' = <<>>
    /\ sendQueue' = <<>>
    /\ transportSends' = <<>>
    /\ isConnected' = FALSE
    /\ session' = 0
    /\ UNCHANGED <<emptyGroupDone, detailRest>>

\* React renders RaksaApp and runs the effect on [form]: saving a form
\* that is already saved changes nothing
RenderAndPersist ==
    /\ Idle
    /\ renderPending
    /\ renderPending' = FALSE
    /\ storage' = saveFormToStorage(form)
    /\ blocked' = NullList
    /\ toolResponses' = <<>>
    /\ transportSends' = <<>>
    /\ UNCHANGED <<form, emptyGroupDone, connVars, dispatchVars, hasResumable>>
    /\ UNCHANGED <<isConnected, session, sendQueue, detailRest>>

\* Resume Previous Session: startSession(saved) if a form can be loaded
resumePrevious ==
    /\ Idle
    /\ StartScreen
    /\ hasResumable
    /\ ~loadFormFromStorage(storage).isNull
    /\ sessionStarted' = TRUE
    /\ setForm(loadFormFromStorage(storage).form)
    /\ connectionState' = CONNECTING
    /\ blocked' = NullList
    /\ toolResponses' = <<>>
    /\ transportSends' = <<>>
    /\ UNCHANGED <<emptyGroupDone, dispatchVars, storageVars>>
    /\ UNCHANGED <<isConnected, session, sendQueue, detailRest>>

\* handleReset with clearFormStorage() and setHasResumable(false)
handleResetAndClear ==
    /\ Idle
    /\ SessionLayout
    /\ \/ sessionStarted /\ connectionState # CONNECTED
       \/ form.step # "photo"
    /\ storage' = NoItem
    /\ hasResumable' = FALSE
    /\ setForm(createDefaultForm)
    /\ sessionStarted' = FALSE
    /\ connectionState' = DISCONNECTED
    /\ blocked' = NullList
    /\ toolResponses' = <<>>
    /\ transportSends' = <<>>
    /\ isConnected' = FALSE
    /\ session' = 0
    /\ UNCHANGED <<emptyGroupDone, dispatchVars>>
    /\ UNCHANGED <<sendQueue, detailRest>>

\* the calls of a remote model that fills the form in by voice and moves
\* on to the incident and to the receipt
SpokenCalls ==
    {call \in ToolCalls :
        /\ call.name # "get_weather"
        /\ call.field_id \in FieldIds \cup {NULL}
        /\ call.source \in {"voice", NULL}
        /\ call.step \in {"incident", "receipt", NULL}}

\* the form machine with its saved copy: sessions are started, resumed and
\* ended, the remote model sends one call in a message, and the page is
\* reloaded at any moment
ReloadNext ==
    \/ \E call \in SpokenCalls : Idle /\ DispatchCall(call)
    \/ RunMicrotasks
    \/ RenderAndPersist
    \/ handlePhotoSkip
    \/ startSession
    \/ resumePrevious
    \/ SessionOpen
    \/ handleResetAndClear
    \/ reload

ReloadSpec == Init /\ [][ReloadNext]_vars

----------------------------------------------------------------------------
(* Vocabulary of the properties *)

AllFields(f) ==
    UNION { {f.groups[gi].fields[i] : i \in 1..Len(f.groups[gi].fields)} :
            gi \in 1..Len(f.groups) }

FieldById(f, id) == CHOOSE fld \in AllFields(f) : fld.id = id

GroupOf(f, groupId) == f.groups[GroupIndex(f, groupId)]

\* the ids of the fields of group g that are not confirmed, in order
UnconfirmedIn(g) ==
    LET missing == SelectSeq(g.fields, NotConfirmed)
    IN  [i \in 1..Len(missing) |-> missing[i].id]

UpdateCall(id, value, source) ==
    [name |-> "update_field", field_id |-> id, value |-> value,
     source |-> source, step |-> NULL]

ConfirmCall(id) ==
    [name |-> "confirm_field", field_id |-> id, value |-> NULL,
     source |-> NULL, step |-> NULL]

NextStepCall(step) ==
    [name |-> "next_step", field_id |-> NULL, value |-> NULL,
     source |-> NULL, step |-> step]

KnownTools == {"update_field", "confirm_field", "next_step"}

----------------------------------------------------------------------------
(* Properties *)

\* C1: at a form group that has a field which is not confirmed, a next_step
\* call for another step leaves the step where it is, makes the first
\* unconfirmed field of the group the active one, returns the non-empty
\* list of the unconfirmed fields of the group from moveToStep, and leaves
\* the receipt code alone.
C1_GatingBlocksTransition ==
    [][\A step \in StepArgs :
          ( /\ form.step \in GroupIds
            /\ HasUnconfirmed(GroupOf(form, form.step))
            /\ step # form.step
            /\ DispatchCall(NextStepCall(step)) )
          => /\ form'.step = form.step
             /\ form'.activeFieldId = UnconfirmedIn(GroupOf(form, form.step))[1]
             /\ blocked' = List(UnconfirmedIn(GroupOf(form, form.step)))
             /\ blocked'.names # <<>>
             /\ form'.receiptCode = form.receiptCode]_vars

C3_ReceiptOnlyWhenAllConfirmed ==
    [][( \/ form'.step = "receipt" /\ form.step # "receipt"
         \/ form'.receiptCode # form.receiptCode /\ form'.receiptCode # NULL )
       => /\ allFieldsConfirmed(form)
          /\ DispatchCall(NextStepCall("receipt"))
          /\ form'.step = "receipt"
          /\ form'.receiptCode \in ReceiptCodes]_vars

\* the receipt has been issued
C3_Witness ==
    /\ form.step = "receipt"
    /\ form.receiptCode \in ReceiptCodes
    /\ allFieldsConfirmed(form)
    /\ callsSeen > 0

\* C4: the receipt code is set if and only if the step is receipt.
C4_ReceiptCodeIffReceiptStep ==
    (form.receiptCode # NULL) <=> (form.step = "receipt")

\* C5: the step is always one of photo, personal, incident, receipt.
C5_StepIsDefined == form.step \in IntakeStep

\* C6: an update_field call on a confirmed field, and Save in the edit box
\* of a confirmed field, write the new value and set the status to the
\* inferred status of the source; the field does not stay confirmed.
C6_ReinferenceReopens ==
    [][/\ (callsSeen' = callsSeen + 1) =>
            \A gi \in DOMAIN form.groups :
               \A i \in DOMAIN form.groups[gi].fields :
                  \A value \in Values, source \in SourceArgs :
                     ( /\ form.groups[gi].fields[i].status = "confirmed"
                       /\ DispatchCall(UpdateCall(form.groups[gi].fields[i].id,
                                                  value, source)) )
                     => /\ form'.groups[gi].fields[i].value = value
                        /\ form'.groups[gi].fields[i].status =
                              IF source = "image" THEN "inferred_from_image"
                                                  ELSE "inferred_from_speech"
       /\ ( /\ callsSeen = 0
            /\ ActiveField.status = "confirmed"
            /\ handleUiEdit )
          => /\ FieldById(form', ActiveField.id).value \in Values
             /\ FieldById(form', ActiveField.id).status = "inferred_from_speech"]_vars

\* a receipt was issued, so every field was confirmed, and a later
\* update_field from the image has re-opened one
C6_Witness ==
    /\ form.receiptCode # NULL
    /\ \E fld \in AllFields(form) : fld.status = "inferred_from_image" /\ fld.value # ""

\* C7: a field becomes confirmed only in a confirm_field call for that
\* field or by the confirm button on that field; nothing else, connection
\* events and reconnects included, confirms a field.
C7_ConfirmedOnlyByExplicitConfirm ==
    [][\A gi \in DOMAIN form.groups :
          \A i \in DOMAIN form.groups[gi].fields :
             ( /\ form.groups[gi].fields[i].status # "confirmed"
               /\ form'.groups[gi].fields[i].status = "confirmed" )
             => \/ DispatchCall(ConfirmCall(form.groups[gi].fields[i].id))
                \/ /\ handleUiConfirm
                   /\ ActiveField.id = form.groups[gi].fields[i].id]_vars

\* a confirmed field in a session whose connection has failed
C7_Witness ==
    /\ connectionState = ERROR
    /\ \E fld \in AllFields(form) : fld.status = "confirmed" /\ fld.value # ""

\* C8: when the step is a group with fields [A, B, ...] and B is not
\* confirmed, a confirm_field call for A confirms A, leaves the step
\* unchanged and makes B the active field.
C8_ConfirmAdvancesPointer ==
    [][\A gi \in 1..Len(form.groups) :
          ( /\ form.step = form.groups[gi].id
            /\ Len(form.groups[gi].fields) >= 2
            /\ NotConfirmed(form.groups[gi].fields[2])
            /\ DispatchCall(ConfirmCall(form.groups[gi].fields[1].id)) )
          => /\ FieldById(form', form.groups[gi].fields[1].id).status = "confirmed"
             /\ form'.step = form.step
             /\ form'.activeFieldId = form.groups[gi].fields[2].id]_vars

\* C9: every tool call of a server message has exactly one response queued
\* for it, the responses that are sent carry the ids of the calls, one
\* each, and they are sent eventually.
C9_OneResultPerCall ==
    /\ [](microtasks = [i \in 1..callsSeen |-> i])
    /\ [][RunMicrotasks =>
            /\ Len(toolResponses') = callsSeen
            /\ \A i \in 1..callsSeen : toolResponses'[i].id = i]_vars
    /\ (callsSeen > 0) ~> (callsSeen = 0 /\ Len(toolResponses) > 0)

\* the responses to a message with more than one call have been sent
C9_Witness ==
    /\ Len(toolResponses) > 1
    /\ \A i \in 1..Len(toolResponses) : toolResponses[i].id = i

\* C10: a tool call with a name other than update_field, confirm_field and
\* next_step leaves the form as it is and has a response queued, and every
\* response that is sent has the same payload.
C10_UnknownToolIgnored ==
    /\ [][\A call \in ToolCalls :
             (call.name \notin KnownTools /\ DispatchCall(call))
             => /\ form' = form
                /\ microtasks' = Append(microtasks, callsSeen + 1)]_vars
    /\ [](\A i \in 1..Len(toolResponses) :
             toolResponses[i].response = [result |-> "ok"])

\* the response to a call that did not touch the form: only a call with
\* an unknown name leaves the render up to date
C10_Witness ==
    /\ Len(toolResponses) = 1
    /\ ~renderPending
    /\ connectionState = CONNECTED

\* C11: a next_step call that the form refuses while the session is
\* connected queues one corrective text through sendText that lists the
\* unconfirmed fields which the refused transition returns, a next_step
\* call that succeeds queues none, and the queued texts are sent when the
\* promise callbacks run.
C11_RefusalSendsCorrectiveText ==
    [][/\ (callsSeen' = callsSeen + 1 /\ form.step \in IntakeStep) =>
            \A step \in StepArgs :
               DispatchCall(NextStepCall(step)) =>
                  LET refused == moveToStep(form, step, NULL).blocked
                  IN  sendQueue' = IF refused.isNull
                                   THEN sendQueue
                                   ELSE Append(sendQueue,
                                               CorrectiveText(step, refused.names))
       /\ RunMicrotasks => transportSends' = sendQueue]_vars


Range(seq) == {seq[i] : i \in DOMAIN seq}

\* a step of the engine that is a connect request: a connect() call begins
ConnectRequest == attempts' = attempts + 1

\* C12: the reported connection state follows Disconnected -> Connecting
\* -> Connected -> {Disconnected, Error}: Connecting is entered only by a
\* connect request, Connected is entered only from Connecting, and once
\* Disconnected is reported the state stays Disconnected until the next
\* connect request.
C12_StateMachine ==
    [][/\ (connectionState' = CONNECTING /\ connectionState # CONNECTING)
             => ConnectRequest
       /\ (connectionState' = CONNECTED /\ connectionState # CONNECTED)
             => connectionState = CONNECTING
       /\ (connectionState = DISCONNECTED /\ connectionState' # DISCONNECTED)
             => ConnectRequest]_vars


\* C13: Connected is reported only when the remote session has confirmed
\* that it is ready: by the Gemini engine only in the step in which a
\* session opens, by the Grok engine only in the step in which a socket
\* receives session.updated (never in the step in which the socket opens);
\* a microphone frame is sent only on a session that has confirmed.
C13_ConnectedOnlyWhenReady ==
    [][/\ (connectionState' = CONNECTED /\ connectionState # CONNECTED)
             => \E a \in Attempts : sock[a] = "connecting" /\ sock'[a] = "open"
       /\ (onaudioprocess' # 0) => sock'[onaudioprocess'] \in OpenedStates
       /\ (AudioFrame \in Range(transportSends'))
             => isConnected /\ sock[onaudioprocess] = "open"
       /\ (grok.reported' = CONNECTED /\ grok.reported # CONNECTED)
             => \E a \in Attempts : /\ grok.stage[a] = "configuring"
                                    /\ grok.stage'[a] = "updated"
       /\ (grok.sent' = "audio")
             => grok.ws # 0 /\ grok.stage[grok.ws] = "updated"]_vars


\* the Gemini engine holds no audio resource and nothing is scheduled
Released ==
    /\ mediaStream = 0
    /\ processor = 0
    /\ sourceNode = 0
    /\ inputContext = 0
    /\ outputContext = 0
    /\ scheduledSources = <<>>

\* the Grok engine holds no audio resource
grokReleased ==
    /\ grok.mediaStream = 0
    /\ grok.processor = 0
    /\ grok.source = 0
    /\ grok.inputContext = 0
    /\ grok.outputContext = 0

\* C14: a disconnect() called before any connect(), or right after another
\* disconnect() with no connect() between the two, throws nothing and
\* leaves the reported state Disconnected and the engine without audio
\* resources: no media stream (its tracks stopped), processor, source node
\* or context, and nothing scheduled for playback.  Both engines.
C14_IdempotentDisconnect ==
    [][/\ ((handleResetDisconnect \/ unmount) /\ lastCall # "connect")
             => /\ connectionState' = DISCONNECTED
                /\ Released'
                /\ mediaStream \notin liveTracks'
                /\ ~isConnected'
                /\ ~thrown'
       /\ (grokDisconnect /\ grok.lastCall # "connect")
             => /\ grok.reported' = DISCONNECTED
                /\ grokReleased'
                /\ grok.mediaStream \notin grok.liveTracks'
                /\ ~grok.isSessionConfigured'
                /\ ~grok.thrown']_vars

\* the second of two disconnect() calls in a row has run on a Gemini
\* engine that a connect() was using
C14_Witness ==
    /\ lastCall = "disconnect again"
    /\ attempts > 0
    /\ connectionState = DISCONNECTED
    /\ Released
    /\ ~thrown


\* connect() call a has not settled: it is at one of its awaits, or its
\* handshake is pending
InFlight(a) == pc[a] \in {"token", "mic", "resume"} \/ sock[a] = "connecting"

\* the engine is torn down: Disconnected is the reported state, and the
\* engine holds no stream, context, processor or session and has no
\* handler that streams the microphone
TornDown ==
    /\ connectionState = DISCONNECTED
    /\ ~isConnected
    /\ mediaStream = 0
    /\ inputContext = 0
    /\ outputContext = 0
    /\ processor = 0
    /\ session = 0
    /\ onaudioprocess = 0

\* C15: if disconnect() was the last call on the engine while a connect()
\* call was still in flight (awaiting the token, the microphone, the resume
\* of the context or the handshake), then in the step in which that call
\* settles the engine is torn down: it reports Disconnected, holds no
\* stream, context, processor or session, and streams no audio.
C15_DisconnectDuringConnect ==
    [][\A a \in Attempts :
          (/\ lastCall \in {"disconnect", "disconnect again"}
           /\ InFlight(a)
           /\ ~InFlight(a)')
             => TornDown']_vars


\* connect() call a of the Gemini engine fails in this step: an awaited
\* step rejects or the audio setup throws, so that the call returns with
\* no session, or the handshake fails
ConnectFails(a) ==
    \/ pc[a] \in {"token", "mic", "resume"} /\ pc'[a] = "returned" /\ sock'[a] = "none"
    \/ sock[a] = "connecting" /\ sock'[a] = "failed"

\* nothing that connect() call a acquired is allocated
NothingOf(a) ==
    /\ mediaStream # a
    /\ a \notin liveTracks
    /\ inputContext # a
    /\ sourceNode # a
    /\ processor # a
    /\ outputContext # a

\* C16: in the step in which a connect() call fails (token, microphone,
\* audio setup, resume, handshake) no exception escapes to the caller, the
\* reported state is Error, and nothing that the call acquired remains
\* allocated.  For the Grok engine connect() fails at the token or at the
\* socket, before any audio resource exists.
C16_FailedConnectReleases ==
    [][\A a \in Attempts :
          /\ ConnectFails(a)
                => /\ ~thrown'
                   /\ connectionState' = ERROR
                   /\ NothingOf(a)'
          /\ (\/ grok.pc[a] = "token" /\ grok.pc'[a] = "returned" /\ grok.ws' # a
              \/ grok.readyState[a] = "connecting" /\ grok.readyState'[a] = "failed"
                    /\ grok.ws = a)
                => /\ ~grok.thrown'
                   /\ grok.reported' = ERROR
                   /\ grok.capture'[a] = "none"]_vars


\* C17: when the microphone is denied to a connection attempt, the
\* attempt has not reported Connected and cannot report it later (it has
\* no session), the reported state is not Connected, and nothing that the
\* attempt acquired is allocated.  For the Gemini engine the denial is
\* the rejection of getUserMedia in connect(), for the Grok engine the
\* rejection of getUserMedia in startAudioCapture.
C17_MicDeniedNeverConnected ==
    [][\A a \in Attempts :
          /\ MicDenied(a)
                => /\ connectionState' # CONNECTED
                   /\ sock'[a] = "none"
                   /\ NothingOf(a)'
          /\ grokMicDenied(a)
                => /\ grok.reported' # CONNECTED
                   /\ grok.stage[a] # "updated"
                   /\ grok.mediaStream' # a
                   /\ grok.processor' # a
                   /\ grok.outputContext' # a]_vars


\* C18: when a session that was open closes or errors, the playback that
\* was scheduled is flushed, the reported state becomes Disconnected (on
\* close) or Error (on error), the form is what it was, and no connect()
\* call begins; connect() calls begin only in startSession and reconnect,
\* and reconnect leaves the form as it is.
C18_DropKeepsForm ==
    [][/\ \A a \in Attempts :
             /\ (onclose(a) /\ sock[a] = "open")
                   => /\ scheduledSources' = <<>>
                      /\ connectionState' = DISCONNECTED
                      /\ form' = form
                      /\ UNCHANGED <<attempts, pc>>
             /\ (onerror(a) /\ sock[a] = "open")
                   => /\ scheduledSources' = <<>>
                      /\ connectionState' = ERROR
                      /\ form' = form
                      /\ UNCHANGED <<attempts, pc>>
       /\ ConnectRequest => startSessionConnect \/ reconnectConnect
       /\ reconnectConnect => form' = form]_vars

\* a session with progress in the form has dropped, and the user has
\* asked to reconnect
C18_Witness ==
    /\ attempts = 2
    /\ sock[1] \in {"closed", "error"}
    /\ pc[2] = "token"
    /\ connectionState = CONNECTING
    /\ sessionStarted
    /\ form.step # "photo"
    /\ scheduledSources = <<>>


\* C19: nothing goes into the transport unless the engine is Connected:
\* whenever a step sends a microphone frame, a text or an image, the
\* reported state is Connected and isConnected is true; a frame, a text
\* or an image handed to an engine that is not Connected is dropped, and
\* a callback queued on the session sends nothing if the engine has left
\* Connected when it runs.
C19_NoSendUnlessConnected ==
    [][transportSends' # <<>>
          => connectionState' = CONNECTED /\ isConnected']_vars


\* the instant at which a scheduled buffer ends
EndOf(src) == src.start + src.duration

\* C20: playback ordering.  A buffer that is scheduled starts at the later
\* of the clock and the cursor, and the cursor becomes its start plus its
\* duration; the buffers scheduled since the last flush never overlap and
\* are in the order of delivery; a buffer delivered before the one before
\* it has played to its end starts exactly where that one ends (t0 and
\* t0 + d1).
C20_PlaybackOrdering ==
    [][/\ \A i, j \in 1..Len(scheduledSources') :
             i < j => EndOf(scheduledSources'[i]) <= scheduledSources'[j].start
       /\ \A i \in 1..Len(scheduledSources') :
             EndOf(scheduledSources'[i]) <= nextStartTime'
       /\ \A duration \in Durations :
             AudioMessage(1, duration) =>
                LET new == scheduledSources'[Len(scheduledSources')]
                IN  /\ new.start = Max(currentTime, nextStartTime)
                    /\ new.start >= currentTime
                    /\ nextStartTime' = new.start + duration
                    /\ (/\ scheduledSources # <<>>
                        /\ currentTime <= EndOf(scheduledSources[Len(scheduledSources)]))
                          => new.start = EndOf(scheduledSources[Len(scheduledSources)])]_vars

\* two buffers delivered back to back after the clock has advanced: the
\* second starts where the first ends
C20_Witness ==
    /\ Len(scheduledSources) = 2
    /\ scheduledSources[1].start > 0
    /\ scheduledSources[1].duration # scheduledSources[2].duration
    /\ scheduledSources[2].start = EndOf(scheduledSources[1])
    /\ nextStartTime = EndOf(scheduledSources[2])


\* C21: barge-in flush.  A server message with an input transcription,
\* handled while any number of buffers are pending, leaves none of them
\* scheduled and moves the cursor to the clock before anything else is
\* scheduled: afterwards the only scheduled buffer is the audio chunk of
\* the same message, if it has one, and that chunk starts at the clock.
C21_BargeInFlush ==
    [][\A m \in SpeechContents :
          (m.inputTranscription # <<>> /\ onmessage(1, m))
          => /\ scheduledSources' =
                   IF m.audio # 0 /\ outputContext # 0
                   THEN <<[start |-> currentTime, duration |-> m.audio]>>
                   ELSE <<>>
             /\ outputContext # 0 =>
                   nextStartTime' = IF m.audio # 0 THEN currentTime + m.audio
                                                   ELSE currentTime]_vars

\* the user has spoken after the clock has advanced, in a message that
\* carries audio: the one pending buffer starts at the clock
C21_Witness ==
    /\ currentTime > 0
    /\ messages # <<>>
    /\ messages[Len(messages)].role = "user"
    /\ Len(scheduledSources) = 1
    /\ scheduledSources[1].start = currentTime
    /\ nextStartTime = currentTime + scheduledSources[1].duration


\* the last turn of a transcript that is not empty
LastTurn(history) == history[Len(history)]

\* the deltas ("Hi", user), ("Hi", model), (" there", model) and the
\* turn-complete marker handed to onTranscript in that order, from an
\* empty transcript
HiThereFed ==
    onTranscript(
        onTranscript(
            onTranscript(
                onTranscript(<<>>, <<"Hi">>, "user", FALSE),
                <<"Hi">>, "model", FALSE),
            <<" ", "there">>, "model", FALSE),
        <<>>, "model", TRUE)

HiThereTurns ==
    << [role |-> "user", text |-> <<"Hi">>],
       [role |-> "model", text |-> <<"Hi", " ", "there">>] >>

BlankTexts == {<<>>, <<" ">>}

\* the server content with these transcriptions and this turnComplete,
\* and nothing else
TextContent(heard, said, done) ==
    [interrupted |-> FALSE, inputTranscription |-> heard, audio |-> 0,
     outputTranscription |-> said, turnComplete |-> done]

\* C23: a turn-complete event, and a delta whose text is empty or blank
\* that arrives when there is no turn or the last turn has another role,
\* leave the transcript as it is, whether an engine hands them to
\* onTranscript or the Gemini session delivers them; and no step leaves a
\* turn with a blank text in the transcript, which starts empty.
C23_NoBlankTurn ==
    [][/\ \A text \in DeltaTexts, role \in Roles, isFinal \in BOOLEAN :
            ( /\ \/ isFinal
                 \/ /\ Trim(text) = <<>>
                    /\ messages = <<>> \/ LastTurn(messages).role # role
              /\ TranscriptEvent(text, role, isFinal) )
            => messages' = messages
       /\ \A heard \in BlankTexts, said \in BlankTexts, done \in BOOLEAN :
            onmessage(1, TextContent(heard, said, done))
            => messages' = messages
       /\ \A i \in 1..Len(messages') : Trim(messages'[i].text) # <<>>]_vars

\* a turn-complete marker of the model has arrived after the user spoke:
\* the transcript holds the turn of the user and nothing else
C23_Witness ==
    /\ lastFinal
    /\ messages = << [role |-> "user", text |-> <<"Hi">>] >>


\* a connect() call of the engine has not returned
ConnectRunning == \E a \in Attempts : pc[a] \notin {"unused", "returned"}

\* a disconnect() call of the engine has not returned: it awaits the session
DisconnectRunning == awaitingSession # {}

\* C24: the connect and disconnect requests of RaksaApp are serialized by
\* connectInFlightRef: a request made while the flag is set does nothing,
\* so disconnect() is called only when no connect() is running, connect()
\* only when no disconnect() is running, and the two never run at the
\* same time.
C24_SerializedByInFlightFlag ==
    [][/\ handleResetDisconnect => ~connectInFlightRef /\ ~ConnectRunning
       /\ ConnectRequest => ~connectInFlightRef /\ ~DisconnectRunning
       /\ ~(ConnectRunning' /\ DisconnectRunning')]_vars


\* the connect() calls whose transport session is opening or open
LiveSessions == {a \in Attempts : sock[a] \in {"connecting", "open"}}

\* C25: an engine has at most one live session: no step leaves two
\* transport sessions opening or open, or the microphone tracks of two
\* connect() calls running; and a reconnect leaves the form as it is.
C25_OneLiveSession ==
    [][/\ Cardinality(LiveSessions') <= 1
       /\ Cardinality(liveTracks') <= 1
       /\ reconnectConnect => form' = form]_vars


\* the groups of form f from the one at index gi on that have a field
\* which is not confirmed
OpenGroupsFrom(f, gi) == {g \in gi..Len(f.groups) : HasUnconfirmed(f.groups[g])}

\* the first field that is not confirmed in the group at index gi of form
\* f or, if it has none, in the groups after it; NULL if there is none
NextUnconfirmedFrom(f, gi) ==
    IF OpenGroupsFrom(f, gi) = {} THEN NULL
    ELSE LET g == CHOOSE x \in OpenGroupsFrom(f, gi) :
                     \A y \in OpenGroupsFrom(f, gi) : x <= y
         IN  UnconfirmedIn(f.groups[g])[1]

\* the ids of the fields of the groups of form f before the one at index gi
FieldIdsBefore(f, gi) ==
    UNION { {f.groups[g].fields[i].id : i \in 1..Len(f.groups[g].fields)} :
            g \in 1..(gi - 1) }

\* a step in which confirmField runs: a confirm_field call or the confirm
\* button
ConfirmFieldRuns ==
    \/ \E id \in FieldArgs : DispatchCall(ConfirmCall(id))
    \/ handleUiConfirm

\* C26: next-unconfirmed-field rule.  After confirmField has run at a step
\* that is a group, the active field is the first field that is not
\* confirmed of that group or, if it has none, of the groups after it;
\* and the active field is not moved to a field of a group before it.
C26_NextUnconfirmedField ==
    [][(form.step \in GroupIds /\ ConfirmFieldRuns)
       => LET gi == GroupIndex(form, form.step)
          IN  /\ NextUnconfirmedFrom(form', gi) # NULL
                    => form'.activeFieldId = NextUnconfirmedFrom(form', gi)
              /\ form'.activeFieldId # form.activeFieldId
                    => form'.activeFieldId \notin FieldIdsBefore(form, gi)]_vars


\* a group of form f other than the one with this id has a field that is
\* not confirmed
OpenElsewhere(f, groupId) ==
    \E g \in 1..Len(f.groups) : f.groups[g].id # groupId /\ HasUnconfirmed(f.groups[g])

\* the active field of form f is a field, not confirmed, of the group that
\* is the step of f
ActiveInStep(f) ==
    /\ f.step \in GroupIds
    /\ \E i \in 1..Len(GroupOf(f, f.step).fields) :
          /\ GroupOf(f, f.step).fields[i].id = f.activeFieldId
          /\ NotConfirmed(GroupOf(f, f.step).fields[i])

\* C27 as stated: a confirm_field call at a step that is a group changes
\* the step exactly when the group had a field that was not confirmed
\* before the call and has none after it, and another group has a field
\* that is not confirmed.
C27_AdvancesExactlyWhenGroupBecameConfirmed ==
    [][(form.step \in GroupIds /\ \E id \in FieldArgs : DispatchCall(ConfirmCall(id)))
       => ( form'.step # form.step
            <=> /\ HasUnconfirmed(GroupOf(form, form.step))
                /\ ~HasUnconfirmed(GroupOf(form', form.step))
                /\ OpenElsewhere(form', form.step) )]_vars

\* C27: when confirmField has run at a step that is a group, the step has
\* changed exactly when, after the call, every field of that group is
\* confirmed and another group has a field that is not; the new step is
\* then the group of the new active field, which is not confirmed.  If
\* the group still has a field that is not confirmed, or no group has
\* one, the step is unchanged.
C27_AdvancesWhenGroupConfirmed ==
    [][(form.step \in GroupIds /\ ConfirmFieldRuns)
       => /\ form'.step # form.step
                <=> /\ ~HasUnconfirmed(GroupOf(form', form.step))
                    /\ OpenElsewhere(form', form.step)
          /\ form'.step # form.step => ActiveInStep(form')
          /\ HasUnconfirmed(GroupOf(form', form.step)) => form'.step = form.step
          /\ allFieldsConfirmed(form') => form'.step = form.step]_vars

\* the confirm button on the only field of the personal group has moved
\* the step on to the incident group, whose first field is now active
C27_Witness ==
    /\ form.step = "incident"
    /\ callsSeen = 0
    /\ form.groups[1].fields[1].status = "confirmed"
    /\ form.groups[1].fields[1].value # ""
    /\ form.activeFieldId = IncidentFieldIds[1]
    /\ \A i \in 1..NumIncidentFields : form.groups[2].fields[i].status = "unanswered"
    /\ transportSends # <<>>


\* the first group of form f that has a field which is not confirmed
FirstOpenGroup(f) == f.groups[FirstIndex(f.groups, HasUnconfirmed)]

\* C28: a next_step('receipt') call made while some group has a field that
\* is not confirmed moves the step to the first such group, makes the
\* first unconfirmed field of that group the active one, returns the
\* non-empty list of the unconfirmed fields of that group from moveToStep,
\* and writes no receipt code.
C28_RefusedReceiptRepositions ==
    [][(~allFieldsConfirmed(form) /\ DispatchCall(NextStepCall("receipt")))
       => /\ form'.step = FirstOpenGroup(form).id
          /\ form'.activeFieldId = UnconfirmedIn(FirstOpenGroup(form))[1]
          /\ blocked' = List(UnconfirmedIn(FirstOpenGroup(form)))
          /\ blocked'.names # <<>>
          /\ form'.receiptCode = form.receiptCode]_vars

\* the conditions under which moveToStep refuses a transition to step
Refused(f, step) ==
    \/ /\ f.step \notin {step, "photo", "receipt"}
       /\ ~groupFullyConfirmed(f, f.step)
    \/ /\ step = "receipt"
       /\ ~allFieldsConfirmed(f)

\* the first field of the group a step names, null when it names no group
FirstFieldOfStep(f, step) ==
    IF step \in GroupIds THEN GroupOf(f, step).fields[1].id ELSE NULL

\* C29: a next_step call that is not refused sets the step to its target;
\* for the receipt it clears the active field and stores a newly generated
\* receipt code, for any other target it makes the first field of the
\* target group the active one (none when the target names no group) and
\* leaves the receipt code alone; in both cases the values and statuses
\* of the fields are unchanged and moveToStep returns no list of missing
\* fields.
C29_AcceptedNextStep ==
    [][\A step \in StepArgs :
          (~Refused(form, step) /\ DispatchCall(NextStepCall(step)))
          => /\ form'.step = step
             /\ form'.groups = form.groups
             /\ blocked'.isNull \/ blocked'.names = <<>>
             /\ IF step = "receipt"
                THEN /\ form'.activeFieldId = NULL
                     /\ form'.receiptCode \in ReceiptCodes
                ELSE /\ form'.activeFieldId = FirstFieldOfStep(form, step)
                     /\ form'.receiptCode = form.receiptCode]_vars

\* next_step('incident') was accepted at the photo step: the incident
\* group is current with its first field active while the personal group
\* is still unanswered
C29_Witness ==
    /\ form.step = "incident"
    /\ form.activeFieldId = IncidentFieldIds[1]
    /\ form.groups[1].fields[1].status = "unanswered"
    /\ form.receiptCode = NULL
    /\ blocked.isNull
    /\ callsSeen > 0


\* C30: when the latest transcript event was a turn-complete marker, the
\* next delta with a non-blank text opens a new turn even when the last
\* turn has the role of the delta, whether an engine hands the delta to
\* onTranscript or the Gemini session delivers it as the transcription of
\* the model's speech.
C30_TurnCompleteClosesTurn ==
    [][/\ \A text \in DeltaTexts, role \in Roles :
            ( /\ lastFinal
              /\ messages # <<>>
              /\ LastTurn(messages).role = role
              /\ Trim(text) # <<>>
              /\ TranscriptEvent(text, role, FALSE) )
            => messages' = Append(messages, [role |-> role, text |-> text])
       /\ \A said \in RawTexts :
            ( /\ lastFinal
              /\ messages # <<>>
              /\ LastTurn(messages).role = "model"
              /\ sanitizeTranscript(said) # <<>>
              /\ onmessage(1, TextContent(<<>>, said, FALSE)) )
            => messages' = Append(messages, [role |-> "model",
                                             text |-> sanitizeTranscript(said)])]_vars


\* connect() call a has set nextStartTime in the step taken
SeedsCursor(a) ==
    /\ pc[a] \in {"mic", "resume"}
    /\ pc'[a] = "returned"

\* C31 as stated: the cursor is seeded with the clock when the session is
\* set up, scheduling a buffer leaves it strictly greater, and while the
\* output context lives no step, a flush included, leaves it smaller than
\* it was.
C31_CursorNeverDecreases ==
    [][/\ SeedsCursor(1) => nextStartTime' = currentTime'
       /\ \A duration \in Durations :
             AudioMessage(1, duration) => nextStartTime' > nextStartTime
       /\ (outputContext # 0 /\ outputContext' # 0)
             => nextStartTime' >= nextStartTime]_vars

\* C31: the cursor is seeded with the clock when the session is set up;
\* scheduling a buffer leaves it strictly greater, at the end of that
\* buffer; while the output context lives the only step that leaves it
\* smaller is a flush with buffers scheduled ahead of the clock, and every
\* flush leaves it at the clock.
C31_CursorAdvancesBetweenFlushes ==
    [][/\ SeedsCursor(1) => nextStartTime' = currentTime'
       /\ \A duration \in Durations :
             AudioMessage(1, duration)
             => /\ nextStartTime' > nextStartTime
                /\ nextStartTime' = EndOf(scheduledSources'[Len(scheduledSources')])
       /\ Interrupted(1) => nextStartTime' = currentTime
       /\ (outputContext # 0 /\ outputContext' # 0 /\ nextStartTime' < nextStartTime)
             => /\ Interrupted(1)
                /\ currentTime < nextStartTime]_vars

\* the clock has advanced past the seed and the longest buffer has been
\* scheduled at the clock: the cursor is at its end
C31_Witness ==
    /\ currentTime > 0
    /\ Len(scheduledSources) = 1
    /\ scheduledSources[1].start = currentTime
    /\ scheduledSources[1].duration = MaxDuration
    /\ nextStartTime = currentTime + MaxDuration


\* a step that ends the session of the engine or flushes its playback
FlushOrTeardown ==
    \/ InterruptedOfNodes(1)
    \/ oncloseOfNodes(1)
    \/ onerrorOfNodes(1)
    \/ handleResetOfNodes

\* C32: the pending set.  The list holds one node for each scheduled
\* buffer and no node twice; scheduling a buffer appends one node that was
\* never in the list before; the ended event of a node of the list removes
\* that node and leaves the others, with their buffers, in order; the
\* ended event of a node that was flushed leaves the list alone; a flush,
\* a transport close, a transport error and a disconnect leave the list
\* empty; and no other step changes the list.
C32_PendingSet ==
    [][/\ Len(nodes') = Len(scheduledSources')
       /\ \A i, j \in 1..Len(nodes') : nodes'[i] = nodes'[j] => i = j
       /\ \A duration \in Durations :
             (outputContext # 0 /\ AudioMessageOfNode(1, duration))
             => /\ nodes' = Append(nodes, created')
                /\ created' \notin Elements(nodes) \cup stopped \cup (1..created)
                /\ stopped' = stopped
       /\ \A n \in 1..MaxNodes :
             onended(n)
             => IF n \in Elements(nodes)
                THEN /\ Elements(nodes') = Elements(nodes) \ {n}
                     /\ \A i \in 1..Len(nodes') :
                           /\ indexOf(nodes, nodes'[i]) \in {i, i + 1}
                           /\ scheduledSources'[i] =
                                 scheduledSources[indexOf(nodes, nodes'[i])]
                ELSE /\ nodes' = nodes
                     /\ scheduledSources' = scheduledSources
       /\ FlushOrTeardown => (nodes' = <<>> /\ scheduledSources' = <<>>)
       /\ nodes' # nodes
             => \/ FlushOrTeardown
                \/ \E n \in 1..MaxNodes : onended(n)
                \/ \E duration \in Durations : AudioMessageOfNode(1, duration)]_vars

\* the first node was flushed before it could play, the second was
\* scheduled after the flush, and the ended event of the first has been
\* handled: the second is still pending
C32_Witness ==
    /\ currentTime = 0
    /\ created = 2
    /\ nodes = <<2>>
    /\ stopped = {}
    /\ Len(scheduledSources) = 1


\* a microphone callback of either engine runs
FrameCaptured ==
    \/ AudioProcessOfFrame
    \/ \E p \in Attempts : grokAudioProcessOfFrame(p)

\* C33: the frames handed to a transport are in the order of their
\* microphone callbacks and none is handed over twice: a callback hands
\* over its own frame, after every frame handed over before, or nothing;
\* the promise that the Gemini handler registers its send on has resolved
\* by then, so the send runs before the next callback; and no other step
\* hands a frame over.
C33_FramesInCaptureOrder ==
    [][/\ \A i, j \in 1..Len(sentFrames') :
             i < j => sentFrames'[i] < sentFrames'[j]
       /\ FrameCaptured
             => /\ captured' = captured + 1
                /\ sentFrames' \in {sentFrames, Append(sentFrames, captured')}
       /\ (AudioProcessOfFrame /\ isConnected) => Resolved(onaudioprocess)
       /\ sentFrames' # sentFrames => FrameCaptured]_vars

\* the first and the third frame were handed over and the second, which
\* was captured in between, was not
C33_Witness ==
    /\ captured = MaxFrames
    /\ sentFrames = <<1, MaxFrames>>


\* the item holds a form with progress and no receipt code
InProgress(item) ==
    /\ ~item.isNull
    /\ JSONparse(item.raw).receiptCode = NULL
    /\ JSONparse(item.raw) # createDefaultForm

\* C34: form progress survives a reload.  When the page is reloaded while
\* a form with progress and no receipt code is saved, Resume Previous
\* Session is offered and the saved form is still the one that was saved
\* before the reload; the button restores exactly the saved form; and the
\* button is offered only while a form with progress and no receipt code
\* is saved.
C34_ProgressSurvivesReload ==
    [][/\ (reload /\ InProgress(storage))
             => /\ hasResumable'
                /\ storage' = storage
       /\ resumePrevious
             => /\ InProgress(storage)
                /\ form' = JSONparse(storage.raw)
       /\ (StartScreen' /\ hasResumable') => InProgress(storage')]_vars


\* the ids of the fields of the group shown at the form's step
FieldIdsOfStep(f) ==
    {GroupOf(f, f.step).fields[i].id : i \in DOMAIN GroupOf(f, f.step).fields}

\* C35: whenever the step is a form group and activeFieldId is not null,
\* activeFieldId is the id of a field of that group.
C35_ActiveFieldInCurrentGroup ==
    (form.step \in GroupIds /\ form.activeFieldId # NULL)
        => form.activeFieldId \in FieldIdsOfStep(form)

\* a callback of the session of call a runs: open, close, error or message
CallbackOf(a) ==
    \/ onopen(a)
    \/ onclose(a)
    \/ onerror(a)
    \/ Interrupted(a)
    \/ AudioMessage(a, MaxDuration)

\* the audio resources and the playback that belong to a call later than a
\* are left as they are
KeepsAudioAfter(a) ==
    /\ mediaStream > a => mediaStream' = mediaStream
    /\ inputContext > a => inputContext' = inputContext
    /\ sourceNode > a => sourceNode' = sourceNode
    /\ processor > a => processor' = processor
    /\ outputContext > a
          => /\ outputContext' = outputContext
             /\ scheduledSources' = scheduledSources
             /\ nextStartTime' = nextStartTime

\* C36: once a later connect() has been started, a callback of the
\* session of an earlier call leaves the audio resources and the playback
\* of the later call, the connected flag and the reported connection
\* state as they are.
C36_SupersededCallbacksIgnored ==
    [][\A a \in Attempts :
          (a < attempts /\ CallbackOf(a))
              => /\ KeepsAudioAfter(a)
                 /\ isConnected' = isConnected
                 /\ connectionState' = connectionState]_vars

\* C37: confirmField is idempotent.  For the form of every reachable
\* state and every field id a confirm_field call can carry, confirmField
\* applied twice gives the form that confirmField applied once gives.
C37_ConfirmFieldIdempotent ==
    \A id \in FieldArgs :
        confirmField(confirmField(form, id), id) = confirmField(form, id)

\* the confirm button on the only field of the personal group has moved
\* the step on to the incident group; a confirm_field call for the same
\* field would leave this form as it is
C37_Witness ==
    /\ form.step = "incident"
    /\ form.activeFieldId = IncidentFieldIds[1]
    /\ form.groups[1].fields[1].status = "confirmed"
    /\ HasUnconfirmed(form.groups[2])
    /\ transportSends # <<>>
    /\ confirmField(form, PersonalFieldIds[1]) = form

\* C38: in every reachable state a field whose status is confirmed has a
\* value that is not empty, so no form with a receipt code has an empty
\* field.
C38_ConfirmedFieldHasValue ==
    /\ \A fld \in AllFields(form) : fld.status = "confirmed" => fld.value # ""
    /\ form.receiptCode # NULL => \A fld \in AllFields(form) : fld.value # ""

\* C39: once the form has a receipt code, no tool call changes it: a
\* next_step call for 'receipt' or for any other step, an update_field
\* call and a confirm_field call each leave receiptCode as it is.
C39_ReceiptCodeStable ==
    [][(form.receiptCode # NULL /\ \E call \in ToolCalls : DispatchCall(call))
       => form'.receiptCode = form.receiptCode]_vars

\* form g differs from form f at most in the value and the status of the
\* fields whose id is id
SameButField(f, g, id) ==
    /\ g.step = f.step
    /\ g.activeFieldId = f.activeFieldId
    /\ g.receiptCode = f.receiptCode
    /\ Len(g.groups) = Len(f.groups)
    /\ \A gi \in 1..Len(f.groups) :
          /\ g.groups[gi].id = f.groups[gi].id
          /\ Len(g.groups[gi].fields) = Len(f.groups[gi].fields)
          /\ \A i \in 1..Len(f.groups[gi].fields) :
                IF f.groups[gi].fields[i].id = id
                THEN g.groups[gi].fields[i].id = id
                ELSE g.groups[gi].fields[i] = f.groups[gi].fields[i]

\* C40: an update_field call changes only the value and the status of the
\* field whose id it carries: the step, the active field, the receipt
\* code and every other field are as before, and a call whose id names no
\* field leaves the form as it is.
C40_UpdateFieldFrame ==
    [][\A call \in ToolCalls :
          (call.name = "update_field" /\ DispatchCall(call))
              => /\ SameButField(form, form', call.field_id)
                 /\ call.field_id \notin FieldIds => form' = form]_vars

\* update_field has written the second field of the incident group while
\* the first field of the personal group is the active one
C40_Witness ==
    /\ form.step = "personal"
    /\ form.activeFieldId = PersonalFieldIds[1]
    /\ form.groups[1].fields[1].status = "unanswered"
    /\ form.groups[2].fields[1].status = "unanswered"
    /\ form.groups[2].fields[NumIncidentFields].status = "inferred_from_image"
    /\ form.groups[2].fields[NumIncidentFields].value # ""
    /\ callsSeen > 0

============================================================================
